---- MODULE Spec2Model ----
(***************************************************************************)
(* A model of the rotonda-store tree bitmap: the trie node with its two    *)
(* bitmaps (local_array/node.rs), the stride walker of match_prefix        *)
(* (local_array/query.rs) and the storage layer behind the StorageBackend  *)
(* trait (local_array/store/storage_backend.rs).                           *)
(*                                                                         *)
(* The code is generic over the address family (AF::BITS) and over the     *)
(* stride sequence.  The model instantiates it with the stride sequence    *)
(* <<3, 4, 5>>, one node shape of each kind, and an address family whose   *)
(* width is the sum of these strides.  A bitmap is the set of the indices  *)
(* of its 1 bits, bit 0 being the least significant: `a & b` is the        *)
(* intersection, `a | b` the union, `a << 1` moves every index up by one.  *)
(***************************************************************************)
EXTENDS Integers, Sequences, FiniteSets, TLC

\* ------------------------------------------------------------ bounds ----

\* the number of insert calls of one behaviour of Spec
MaxInserts == 3

\* the number of insert calls of one behaviour of SpecConc
MaxConcInserts == 2

\* the retries upsert_prefix allows itself after a collision on the slot
MaxRetries == 1

\* the number of insert calls of one behaviour of SpecIns
MaxFairInserts == 3

\* the count of lost compare_exchange calls of one CAS loop stops here
FailsCap == 3

\* the longest stride sequence handed to Store::new
MaxStrides == 3

\* ----------------------------------------------------- configuration ----

Strides == <<3, 4, 5>>

RECURSIVE SumTo(_)
SumTo(n) == IF n = 0 THEN 0 ELSE Strides[n] + SumTo(n - 1)

\* AF::BITS of the modelled address family: the strides sum to it
W == SumTo(Len(Strides))

Pow2(n) == 2 ^ n

\* Option<T>: None is the empty tuple, Some(x) the tuple of x alone
None == <<>>
Some(x) == <<x>>
IsSome(o) == o # <<>>
Unwrap(o) == o[1]

\* ----------------------------------------------------- address bits ----

\* AddressFamily::get_nibble: the len bits of net that start at start_bit
get_nibble(net, start_bit, len) ==
    (net \div Pow2(W - start_bit - len)) % Pow2(len)

\* AddressFamily::truncate_to_len: net with the bits after len cleared
truncate_to_len(net, len) ==
    (net \div Pow2(W - len)) * Pow2(W - len)

\* PrefixId::new
PrefixId(net, len) == [net |-> net, len |-> len]

\* StrideNodeId::new_with_cleaned_id
StrideNodeId(net, len) == [net |-> truncate_to_len(net, len), len |-> len]

\* StrideNodeId::add_nibble: the id extended by the nibble_len bits of nibble
add_nibble(id, nibble, nibble_len) ==
    [net |-> id.net + nibble * Pow2(W - id.len - nibble_len),
     len |-> id.len + nibble_len]

\* p is a prefix-of q (p = q included)
IsPrefixOf(p, q) ==
    /\ p.len <= q.len
    /\ truncate_to_len(q.net, p.len) = p.net

\* ------------------------------------------------------- the bitmaps ----

\* Stride::BITS: the width of the pfxbitarr of a node of stride s
\* (AtomicU16, AtomicU32, AtomicU64 for the strides 3, 4, 5)
BITS(s) == Pow2(s + 1)

\* a ptrbitarr of 2^(s-1) bits
PTRBITS_of_half_the_nibbles(s) == Pow2(s - 1)

\* the width of the ptrbitarr (AtomicU8, AtomicU16, AtomicU32)
PTRBITS(s) == Pow2(s)

\* a get_bit_pos in a word of 2^s - 1 bits
get_bit_pos_in_narrow_word(s, nibble, len) ==
    LET idx == (Pow2(s) - 1) - ((Pow2(len) - 1) + nibble)
    IN  IF idx >= 0 THEN {idx} ELSE {}

\* Stride::get_bit_pos: the one-bit mask of (nibble, len) in a pfxbitarr,
\* (1 << (BITS - 1)) >> ((1 << len) - 1 + nibble)
get_bit_pos(s, nibble, len) ==
    LET idx == BITS(s) - 1 - ((Pow2(len) - 1) + nibble)
    IN  IF idx >= 0 THEN {idx} ELSE {}

\* Stride::into_stride_size: a ptrbitarr widened to the pfxbitarr's width
into_stride_size(s, ptrbitarr) == {i + 1 : i \in ptrbitarr}

\* Stride::into_ptrbitarr_size: back again, cut to the ptrbitarr's width
into_ptrbitarr_size(s, bitmap) ==
    {i - 1 : i \in {j \in bitmap : j >= 1 /\ j <= PTRBITS(s)}}

\* a fresh TreeBitMapNode of stride s
EmptyNode(s) == [stride |-> s, ptrbitarr |-> {}, pfxbitarr |-> {}]

\* ------------------------------------------------- the insert primitive ----

\* an exchange that stores the new value whatever the word holds
exchange_without_compare(mem, expected, new) ==
    [ok |-> TRUE, mem |-> new, seen |-> mem]

\* AtomicBitmap::compare_exchange on a word that holds mem: the word after
\* the call, whether the exchange took place, and the value it saw
compare_exchange(mem, expected, new) ==
    IF mem = expected
    THEN [ok |-> TRUE, mem |-> new, seen |-> mem]
    ELSE [ok |-> FALSE, mem |-> mem, seen |-> mem]

\* a proposal for ptrbitarr that sets the bit of the next nibble as well
new_ptrbitarr_with_the_neighbour(s, bit_pos, expected) ==
    into_ptrbitarr_size(s, bit_pos \cup {i - 1 : i \in {j \in bit_pos : j >= 2}}
                               \cup into_stride_size(s, expected))

\* the value the CAS of eval_node_or_prefix_at proposes for ptrbitarr
new_ptrbitarr(s, bit_pos, expected) ==
    into_ptrbitarr_size(s, bit_pos \cup into_stride_size(s, expected))

\* a proposal for pfxbitarr that leaves out the bits the writer saw set
new_pfxbitarr_without_expected(bit_pos, expected) == bit_pos

\* the value the CAS of eval_node_or_prefix_at proposes for pfxbitarr
new_pfxbitarr(bit_pos, expected) == bit_pos \cup expected

\* the CAS loop on ptrbitarr without a concurrent writer: the word at the end
RECURSIVE ptr_cas_loop(_, _, _, _)
ptr_cas_loop(s, mem, expected, bit_pos) ==
    LET r == compare_exchange(mem, expected, new_ptrbitarr(s, bit_pos, expected))
    IN  IF r.ok THEN r.mem ELSE ptr_cas_loop(s, r.mem, r.seen, bit_pos)

\* the CAS loop on pfxbitarr without a concurrent writer: the word at the end
RECURSIVE pfx_cas_loop(_, _, _)
pfx_cas_loop(mem, expected, bit_pos) ==
    LET r == compare_exchange(mem, expected, new_pfxbitarr(bit_pos, expected))
    IN  IF r.ok THEN r.mem ELSE pfx_cas_loop(r.mem, r.seen, bit_pos)

\* the test `ptrbitarr & bit_pos == 0` of eval_node_or_prefix_at
ptr_bit_unset(s, ptrbitarr, bit_pos) ==
    into_stride_size(s, ptrbitarr) \cap bit_pos = {}

\* a test that finds the prefix bit unset whatever pfxbitarr holds
pfx_bit_always_unset(pfxbitarr, bit_pos) == TRUE

\* the test `pfxbitarr & bit_pos == 0` of eval_node_or_prefix_at
pfx_bit_unset(pfxbitarr, bit_pos) == pfxbitarr \cap bit_pos = {}

\* eval_node_or_prefix_at, called with no other writer on the node: the
\* NewNodeOrIndex it returns and the node as the call leaves it
eval_node_or_prefix_at(node, nibble, nibble_len, base_prefix, stride_len, next_stride, is_last_stride) ==
    LET ptrbitarr == node.ptrbitarr
        pfxbitarr == node.pfxbitarr
        bit_pos   == get_bit_pos(node.stride, nibble, nibble_len)
    IN  IF ~is_last_stride
        THEN IF ptr_bit_unset(node.stride, ptrbitarr, bit_pos)
             THEN [kind |-> "NewNode",
                   new_node |-> EmptyNode(Unwrap(next_stride)),
                   node |-> [node EXCEPT !.ptrbitarr =
                       ptr_cas_loop(node.stride, node.ptrbitarr, ptrbitarr, bit_pos)]]
             ELSE [kind |-> "ExistingNode",
                   id |-> StrideNodeId(base_prefix.net, base_prefix.len + stride_len),
                   node |-> node]
        ELSE IF pfx_bit_unset(pfxbitarr, bit_pos)
             THEN [kind |-> "NewPrefix",
                   node |-> [node EXCEPT !.pfxbitarr =
                       pfx_cas_loop(node.pfxbitarr, pfxbitarr, bit_pos)]]
             ELSE [kind |-> "ExistingPrefix", node |-> node]

\* ------------------------------------------------- the prefix iterator ----

\* TreeBitMapNode::pfx_iter: the iterator over the prefix ids of a node
pfx_iter(node, base_prefix) ==
    [stride |-> node.stride, pfxbitarr |-> node.pfxbitarr,
     base_prefix |-> base_prefix, start_len |-> 1, start_bit_span |-> 0]

\* the two loops of NodePrefixIter::next from (cur_len, bit_span) on: the
\* inner loop of every cur_len starts at self.start_bit_span; item is the
\* prefix returned, it the iterator after the call
RECURSIVE prefix_iter_scan(_, _, _)
prefix_iter_scan(it, cur_len, bit_span) ==
    LET inc_len == Pow2(cur_len) - 1
        bit_pos == get_bit_pos(it.stride, bit_span, cur_len)
    IN  IF cur_len > it.stride THEN [item |-> None, it |-> it]
        ELSE IF bit_span >= inc_len + 1
        THEN prefix_iter_scan(it, cur_len + 1, it.start_bit_span)
        ELSE IF bit_pos \cup it.pfxbitarr = it.pfxbitarr
        THEN [item |-> Some(add_nibble(it.base_prefix, bit_span, cur_len)),
              it |-> [it EXCEPT !.start_bit_span = bit_span + 1,
                                !.start_len = cur_len]]
        ELSE prefix_iter_scan(it, cur_len, bit_span + 1)

\* NodePrefixIter::next
NodePrefixIter_next(it) == prefix_iter_scan(it, it.start_len, it.start_bit_span)

\* the items of the iterator `it` until it returns None
RECURSIVE collect(_)
collect(it) ==
    LET r == NodePrefixIter_next(it)
    IN  IF IsSome(r.item) THEN <<Unwrap(r.item)>> \o collect(r.it) ELSE <<>>

\* TreeBitMapNode::ptr_iter: the iterator over the child node ids of a node
ptr_iter(node, base_prefix) ==
    [stride |-> node.stride, ptrbitarr |-> node.ptrbitarr,
     base_prefix |-> base_prefix, bit_span |-> 0]

\* the loop of NodeChildIter::next from cursor on
RECURSIVE child_iter_scan(_, _)
child_iter_scan(it, cursor) ==
    LET bit_pos == get_bit_pos(it.stride, cursor, it.stride)
    IN  IF cursor >= Pow2(it.stride) THEN [item |-> None, it |-> it]
        ELSE IF into_stride_size(it.stride, it.ptrbitarr) \cap bit_pos # {}
        THEN [item |-> Some(add_nibble(it.base_prefix, cursor, it.stride)),
              it |-> [it EXCEPT !.bit_span = cursor + 1]]
        ELSE child_iter_scan(it, cursor + 1)

\* NodeChildIter::next
NodeChildIter_next(it) == child_iter_scan(it, it.bit_span)

\* the items of the child iterator `it` until it returns None
RECURSIVE collect_children(_)
collect_children(it) ==
    LET r == NodeChildIter_next(it)
    IN  IF IsSome(r.item)
        THEN <<Unwrap(r.item)>> \o collect_children(r.it)
        ELSE <<>>

\* ---------------------------------------------------- the storage layer ----

\* a merge that keeps the stored value and drops the update
merge_keeping_stored(stored, update) == stored

\* MergeUpdate::merge_update of PrefixAs: the update replaces the stored value
merge_update(stored, update) == update

RootId == [net |-> 0, len |-> 0]

\* StorageBackend::acquire_new_node_id
acquire_new_node_id(net, len) == StrideNodeId(net, len)

\* a store_node that publishes the node under id whatever is published there
store_node_replacing(ns, id, n) ==
    [q \in DOMAIN ns \cup {id} |-> IF q = id THEN n ELSE ns[q]]

\* StorageBackend::store_node: publishes the node under id unless a node is
\* published there already, which is then kept
store_node(ns, id, n) ==
    IF id \in DOMAIN ns THEN ns ELSE ns @@ (id :> n)

\* the slot of a prefix map that holds no record yet
EmptySlot == [serial |-> 0, meta |-> None]

\* the slot of pid in the prefix map ps
slot_of(ps, pid) == IF pid \in DOMAIN ps THEN ps[pid] ELSE EmptySlot

\* what upsert_prefix proposes for a slot it read as `slot`
upsert_value(slot, meta) ==
    IF slot.serial = 0
    THEN [serial |-> 1, meta |-> Some(meta)]
    ELSE [serial |-> slot.serial + 1,
          meta |-> Some(merge_update(Unwrap(slot.meta), meta))]

\* the prefix map with the slot of pid replaced
publish(ps, pid, slot) ==
    [q \in DOMAIN ps \cup {pid} |-> IF q = pid THEN slot ELSE ps[q]]

\* StorageBackend::upsert_prefix with no concurrent writer of the slot
upsert_prefix(ps, pfx, meta) ==
    LET pid == PrefixId(pfx.net, pfx.len)
    IN  publish(ps, pid, upsert_value(slot_of(ps, pid), meta))

\* ------------------------------------------------------ the insert walker ----

\* the stride an insert or a query works on at `level`
stride_start(level) == SumTo(level - 1)
stride_end(level) == SumTo(level)

\* the nibble length of pfx in the stride of `level`
nibble_len_at(pfx, level) ==
    IF pfx.len < stride_end(level)
    THEN Strides[level] + pfx.len - stride_end(level)
    ELSE Strides[level]

next_stride(level) ==
    IF level < Len(Strides) THEN Some(Strides[level + 1]) ELSE None

\* one stride of TreeBitMap::insert on the node map ns: the node map after
\* it and where the walk goes next
insert_stride(ns, pfx, level, cur) ==
    LET nl  == nibble_len_at(pfx, level)
        nib == get_nibble(pfx.net, stride_start(level), nl)
        r   == eval_node_or_prefix_at(ns[cur], nib, nl,
                   [net |-> pfx.net, len |-> stride_start(level)],
                   Strides[level], next_stride(level),
                   pfx.len <= stride_end(level))
        ns1 == [ns EXCEPT ![cur] = r.node]
    IN  CASE r.kind = "NewNode" ->
               LET new_id == acquire_new_node_id(pfx.net, stride_start(level) + nl)
               IN  [nodes |-> store_node(ns1, new_id, r.new_node),
                    next |-> Some(new_id)]
          [] r.kind = "ExistingNode" -> [nodes |-> ns1, next |-> Some(r.id)]
          [] OTHER -> [nodes |-> ns1, next |-> None]

\* the strides of TreeBitMap::insert from `level` on: the node map at the end
RECURSIVE insert_walk(_, _, _, _)
insert_walk(ns, pfx, level, cur) ==
    LET r == insert_stride(ns, pfx, level, cur)
    IN  IF IsSome(r.next)
        THEN insert_walk(r.nodes, pfx, level + 1, Unwrap(r.next))
        ELSE r.nodes

\* -------------------------------------------------- the search primitives ----

\* the test `pfxbitarr & bit_pos > 0` of the search primitives
pfx_bit_set(pfxbitarr, bit_pos) == pfxbitarr \cap bit_pos # {}

\* the test `into_stride_size(ptrbitarr) & bit_pos > 0`
ptr_bit_set(s, ptrbitarr, bit_pos) ==
    into_stride_size(s, ptrbitarr) \cap bit_pos # {}

\* a longest-match loop that keeps its first hit instead of its latest
RECURSIVE longest_loop_first_hit(_, _, _, _, _, _)
longest_loop_first_hit(node, search_pfx, nibble_len, start_bit, n_l, acc) ==
    IF n_l > nibble_len THEN acc
    ELSE
      LET nibble  == get_nibble(search_pfx.net, start_bit, n_l)
          bit_pos == get_bit_pos(node.stride, nibble, n_l)
          f_pfx   == PrefixId(truncate_to_len(search_pfx.net, start_bit + n_l),
                              start_bit + n_l)
          hit     == pfx_bit_set(node.pfxbitarr, bit_pos)
      IN  longest_loop_first_hit(node, search_pfx, nibble_len, start_bit, n_l + 1,
             [found_pfx |-> IF hit /\ acc.found_pfx = None THEN Some(f_pfx)
                                                           ELSE acc.found_pfx,
              ls        |-> acc.ls,
              bit_pos   |-> bit_pos])

\* a longest-match loop that gives its hits the net of the query as it is
RECURSIVE longest_loop_without_truncate(_, _, _, _, _, _)
longest_loop_without_truncate(node, search_pfx, nibble_len, start_bit, n_l, acc) ==
    IF n_l > nibble_len THEN acc
    ELSE
      LET nibble  == get_nibble(search_pfx.net, start_bit, n_l)
          bit_pos == get_bit_pos(node.stride, nibble, n_l)
          f_pfx   == PrefixId(search_pfx.net, start_bit + n_l)
          hit     == pfx_bit_set(node.pfxbitarr, bit_pos)
      IN  longest_loop_without_truncate(node, search_pfx, nibble_len, start_bit,
             n_l + 1,
             [found_pfx |-> IF hit THEN Some(f_pfx) ELSE acc.found_pfx,
              ls        |-> acc.ls,
              bit_pos   |-> bit_pos])

\* the loop over n_l of search_stride_for_longest_match_at from n_l on:
\* acc carries found_pfx, the less-specifics vec and the last bit_pos
RECURSIVE longest_loop(_, _, _, _, _, _)
longest_loop(node, search_pfx, nibble_len, start_bit, n_l, acc) ==
    IF n_l > nibble_len THEN acc
    ELSE
      LET nibble  == get_nibble(search_pfx.net, start_bit, n_l)
          bit_pos == get_bit_pos(node.stride, nibble, n_l)
          f_pfx   == PrefixId(truncate_to_len(search_pfx.net, start_bit + n_l),
                              start_bit + n_l)
          hit     == pfx_bit_set(node.pfxbitarr, bit_pos)
          push    == /\ hit
                     /\ IsSome(acc.ls)
                     /\ search_pfx.len > start_bit + n_l
                     /\ ~ptr_bit_set(node.stride, node.ptrbitarr, bit_pos)
      IN  longest_loop(node, search_pfx, nibble_len, start_bit, n_l + 1,
             [found_pfx |-> IF hit THEN Some(f_pfx) ELSE acc.found_pfx,
              ls        |-> IF push THEN Some(Append(Unwrap(acc.ls), f_pfx))
                                    ELSE acc.ls,
              bit_pos   |-> bit_pos])

\* a longest-match search that returns the child of the nibble whenever the
\* node has one, at the end of the query too
longest_match_descending_at_the_end(node, search_pfx, nibble, nibble_len, start_bit, less_specifics_vec) ==
    LET acc == longest_loop(node, search_pfx, nibble_len, start_bit, 1,
                   [found_pfx |-> None, ls |-> less_specifics_vec,
                    bit_pos |-> get_bit_pos(node.stride, nibble, nibble_len)])
        base_prefix == StrideNodeId(search_pfx.net, start_bit)
    IN  IF ~ptr_bit_set(node.stride, node.ptrbitarr, acc.bit_pos)
        THEN [child |-> None, pfx |-> acc.found_pfx, ls |-> acc.ls]
        ELSE [child |-> Some(add_nibble(base_prefix, nibble, nibble_len)),
              pfx |-> acc.found_pfx, ls |-> acc.ls]

\* search_stride_for_longest_match_at on the bitmaps in `node`
search_stride_for_longest_match_at(node, search_pfx, nibble, nibble_len, start_bit, less_specifics_vec) ==
    LET acc == longest_loop(node, search_pfx, nibble_len, start_bit, 1,
                   [found_pfx |-> None, ls |-> less_specifics_vec,
                    bit_pos |-> get_bit_pos(node.stride, nibble, nibble_len)])
        base_prefix == StrideNodeId(search_pfx.net, start_bit)
    IN  IF \/ search_pfx.len <= start_bit + nibble_len
           \/ ~ptr_bit_set(node.stride, node.ptrbitarr, acc.bit_pos)
        THEN [child |-> None, pfx |-> acc.found_pfx, ls |-> acc.ls]
        ELSE [child |-> Some(add_nibble(base_prefix, nibble, nibble_len)),
              pfx |-> acc.found_pfx, ls |-> acc.ls]

\* an exact-match search that reads the child bit where the prefix bit is due
exact_match_reading_ptrbitarr(node, search_pfx, nibble, nibble_len, start_bit, less_specifics_vec) ==
    LET bit_pos == get_bit_pos(node.stride, nibble, nibble_len)
    IN  IF search_pfx.len <= start_bit + nibble_len
        THEN [child |-> None,
              pfx |-> IF ptr_bit_set(node.stride, node.ptrbitarr, bit_pos)
                      THEN Some(PrefixId(
                               truncate_to_len(search_pfx.net, start_bit + nibble_len),
                               start_bit + nibble_len))
                      ELSE None,
              ls |-> less_specifics_vec]
        ELSE [child |-> IF ptr_bit_set(node.stride, node.ptrbitarr, bit_pos)
                        THEN Some(StrideNodeId(search_pfx.net, start_bit + nibble_len))
                        ELSE None,
              pfx |-> None,
              ls |-> less_specifics_vec]

\* an exact match that also returns the prefix of the full nibble when the
\* query goes on below the node
exact_match_with_prefix_on_the_way(node, search_pfx, nibble, nibble_len, start_bit, less_specifics_vec) ==
    LET bit_pos == get_bit_pos(node.stride, nibble, nibble_len)
    IN  [child |-> IF /\ search_pfx.len > start_bit + nibble_len
                      /\ ptr_bit_set(node.stride, node.ptrbitarr, bit_pos)
                   THEN Some(StrideNodeId(search_pfx.net, start_bit + nibble_len))
                   ELSE None,
         pfx |-> IF pfx_bit_set(node.pfxbitarr, bit_pos)
                 THEN Some(PrefixId(
                          truncate_to_len(search_pfx.net, start_bit + nibble_len),
                          start_bit + nibble_len))
                 ELSE None,
         ls |-> less_specifics_vec]

\* search_stride_for_exact_match_at on the bitmaps in `node`
search_stride_for_exact_match_at(node, search_pfx, nibble, nibble_len, start_bit, less_specifics_vec) ==
    LET bit_pos == get_bit_pos(node.stride, nibble, nibble_len)
    IN  IF search_pfx.len <= start_bit + nibble_len
        THEN [child |-> None,
              pfx |-> IF pfx_bit_set(node.pfxbitarr, bit_pos)
                      THEN Some(PrefixId(
                               truncate_to_len(search_pfx.net, start_bit + nibble_len),
                               start_bit + nibble_len))
                      ELSE None,
              ls |-> less_specifics_vec]
        ELSE [child |-> IF ptr_bit_set(node.stride, node.ptrbitarr, bit_pos)
                        THEN Some(StrideNodeId(search_pfx.net, start_bit + nibble_len))
                        ELSE None,
              pfx |-> None,
              ls |-> less_specifics_vec]

\* the loop over n_l of search_stride_for_exact_match_with_less_specifics_at
RECURSIVE exact_ls_loop(_, _, _, _, _, _)
exact_ls_loop(node, search_pfx, nibble_len, start_bit, n_l, acc) ==
    IF n_l > nibble_len THEN acc
    ELSE
      LET nibble  == get_nibble(search_pfx.net, start_bit, n_l)
          bit_pos == get_bit_pos(node.stride, nibble, n_l)
          f_pfx   == PrefixId(truncate_to_len(search_pfx.net, start_bit + n_l),
                              start_bit + n_l)
          hit     == pfx_bit_set(node.pfxbitarr, bit_pos)
      IN  exact_ls_loop(node, search_pfx, nibble_len, start_bit, n_l + 1,
             [found_pfx |-> IF hit /\ n_l = nibble_len THEN Some(f_pfx)
                                                       ELSE acc.found_pfx,
              ls        |-> IF hit THEN Append(acc.ls, f_pfx) ELSE acc.ls,
              bit_pos   |-> bit_pos])

\* an exact match with less-specifics that returns the child of the nibble
\* whenever the node has one, at the end of the query too
exact_ls_match_descending_at_the_end(node, search_pfx, nibble, nibble_len, start_bit, less_specifics_vec) ==
    LET acc == exact_ls_loop(node, search_pfx, nibble_len, start_bit, 1,
                   [found_pfx |-> None, ls |-> Unwrap(less_specifics_vec),
                    bit_pos |-> get_bit_pos(node.stride, nibble, nibble_len)])
        ls  == IF acc.found_pfx = None THEN <<>> ELSE acc.ls
    IN  IF ~ptr_bit_set(node.stride, node.ptrbitarr, acc.bit_pos)
        THEN [child |-> None, pfx |-> acc.found_pfx, ls |-> Some(ls)]
        ELSE [child |-> Some(StrideNodeId(search_pfx.net, start_bit + nibble_len)),
              pfx |-> None, ls |-> Some(ls)]

\* search_stride_for_exact_match_with_less_specifics_at on the bitmaps in
\* `node`; less_specifics_vec is Some (the function expects it)
search_stride_for_exact_match_with_less_specifics_at(node, search_pfx, nibble, nibble_len, start_bit, less_specifics_vec) ==
    LET acc == exact_ls_loop(node, search_pfx, nibble_len, start_bit, 1,
                   [found_pfx |-> None, ls |-> Unwrap(less_specifics_vec),
                    bit_pos |-> get_bit_pos(node.stride, nibble, nibble_len)])
        ls  == IF acc.found_pfx = None THEN <<>> ELSE acc.ls
    IN  IF \/ search_pfx.len <= start_bit + nibble_len
           \/ ~ptr_bit_set(node.stride, node.ptrbitarr, acc.bit_pos)
        THEN [child |-> None, pfx |-> acc.found_pfx, ls |-> Some(ls)]
        ELSE [child |-> Some(StrideNodeId(search_pfx.net, start_bit + nibble_len)),
              pfx |-> None, ls |-> Some(ls)]

\* the two nested loops of add_more_specifics_at, as the sequence of the
\* (ms_nibble, ms_nibble_len) pairs in the order the loops visit them
RECURSIVE ms_positions(_, _, _, _, _)
ms_positions(s, nibble, nibble_len, ms_nibble_len, n_l) ==
    IF ms_nibble_len > s THEN <<>>
    ELSE IF n_l >= Pow2(ms_nibble_len - nibble_len)
         THEN ms_positions(s, nibble, nibble_len, ms_nibble_len + 1, 0)
         ELSE <<[nibble |-> nibble * Pow2(ms_nibble_len - nibble_len) + n_l,
                 len |-> ms_nibble_len]>>
              \o ms_positions(s, nibble, nibble_len, ms_nibble_len, n_l + 1)

\* an add_more_specifics_at that forgets the child at the nibble itself
add_more_specifics_without_found_child(node, nibble, nibble_len, base_prefix) ==
    LET s       == node.stride
        pos     == ms_positions(s, nibble, nibble_len, nibble_len + 1, 0)
        IsChild(p) == ptr_bit_set(s, node.ptrbitarr, get_bit_pos(s, p.nibble, p.len))
        IsPfx(p)   == pfx_bit_set(node.pfxbitarr, get_bit_pos(s, p.nibble, p.len))
        ToId(p)    == add_nibble(base_prefix, p.nibble, p.len)
        children == SelectSeq(pos, IsChild)
        pfxs     == SelectSeq(pos, IsPfx)
    IN  [children |-> [i \in 1..Len(children) |-> ToId(children[i])],
         pfxs |-> [i \in 1..Len(pfxs) |-> ToId(pfxs[i])]]

\* an add_more_specifics_at whose loop starts at the nibble itself
add_more_specifics_from_the_nibble(node, nibble, nibble_len, base_prefix) ==
    LET s       == node.stride
        pos     == ms_positions(s, nibble, nibble_len, nibble_len, 0)
        IsChild(p) == ptr_bit_set(s, node.ptrbitarr, get_bit_pos(s, p.nibble, p.len))
        IsPfx(p)   == pfx_bit_set(node.pfxbitarr, get_bit_pos(s, p.nibble, p.len))
        ToId(p)    == add_nibble(base_prefix, p.nibble, p.len)
        children == SelectSeq(pos, IsChild)
        pfxs     == SelectSeq(pos, IsPfx)
    IN  [children |-> [i \in 1..Len(children) |-> ToId(children[i])],
         pfxs |-> [i \in 1..Len(pfxs) |-> ToId(pfxs[i])]]

\* add_more_specifics_at on the bitmaps in `node`: the child nodes that
\* hold more-specifics and the more-specific prefixes of this node
add_more_specifics_at(node, nibble, nibble_len, base_prefix) ==
    LET s       == node.stride
        bit_pos == get_bit_pos(s, nibble, nibble_len)
        found_child ==
            IF ptr_bit_set(s, node.ptrbitarr, bit_pos)
            THEN <<add_nibble(base_prefix, nibble, nibble_len)>>
            ELSE <<>>
        pos     == ms_positions(s, nibble, nibble_len, nibble_len + 1, 0)
        IsChild(p) == ptr_bit_set(s, node.ptrbitarr, get_bit_pos(s, p.nibble, p.len))
        IsPfx(p)   == pfx_bit_set(node.pfxbitarr, get_bit_pos(s, p.nibble, p.len))
        ToId(p)    == add_nibble(base_prefix, p.nibble, p.len)
        children == SelectSeq(pos, IsChild)
        pfxs     == SelectSeq(pos, IsPfx)
    IN  [children |-> found_child
                      \o [i \in 1..Len(children) |-> ToId(children[i])],
         pfxs |-> [i \in 1..Len(pfxs) |-> ToId(pfxs[i])]]

\* get_all_more_specifics_for_node: drains the queue of child nodes, calling
\* add_more_specifics_at at the top of each and queueing its children; ok is
\* FALSE when a queued node is not in the node map
RECURSIVE more_specifics_drain(_, _)
more_specifics_drain(ns, queue) ==
    IF queue = <<>> THEN [pfxs |-> <<>>, ok |-> TRUE]
    ELSE IF Head(queue) \notin DOMAIN ns THEN [pfxs |-> <<>>, ok |-> FALSE]
    ELSE LET r    == add_more_specifics_at(ns[Head(queue)], 0, 0, Head(queue))
             rest == more_specifics_drain(ns, Tail(queue) \o r.children)
         IN  [pfxs |-> r.pfxs \o rest.pfxs, ok |-> rest.ok]

\* TreeBitMap::get_all_more_specifics_from_nibble
get_all_more_specifics_from_nibble(ns, node, nibble, nibble_len, base_prefix) ==
    LET r    == add_more_specifics_at(node, nibble, nibble_len, base_prefix)
        rest == more_specifics_drain(ns, r.children)
    IN  [pfxs |-> r.pfxs \o rest.pfxs, ok |-> rest.ok]

\* ------------------------------------------------------- the query walker ----

ExactMatch == "ExactMatch"
LongestMatch == "LongestMatch"
EmptyMatch == "EmptyMatch"

\* the search primitive match_prefix picks for the options
search_fn(options, node, search_pfx, nibble, nibble_len, start_bit, ls) ==
    IF options.match_type = ExactMatch
    THEN IF options.include_less_specifics
         THEN search_stride_for_exact_match_with_less_specifics_at(
                  node, search_pfx, nibble, nibble_len, start_bit, ls)
         ELSE search_stride_for_exact_match_at(
                  node, search_pfx, nibble, nibble_len, start_bit, ls)
    ELSE search_stride_for_longest_match_at(
             node, search_pfx, nibble, nibble_len, start_bit, ls)

\* a (None, None) arm that collects no more-specifics for EmptyMatch
no_child_no_prefix_without_more(options, a, a_with_more) ==
    IF options.match_type = LongestMatch THEN a ELSE [a EXCEPT !.cand = None]

\* the (None, None) arm of the stride loop: the result values after it, from
\* the values a before it and a_with_more, the same with the more-specifics
\* of the nibble collected
no_child_no_prefix(options, a, a_with_more) ==
    CASE options.match_type = EmptyMatch -> [a_with_more EXCEPT !.cand = None]
      [] options.match_type = LongestMatch -> a
      [] OTHER -> [a EXCEPT !.cand = None]

\* one iteration of the stride loop of match_prefix on the node `node_id`:
\* `node` holds the bitmaps the search primitive loaded from it, acc holds
\* match_prefix_idx, less_specifics_vec and more_specifics_vec.  next is the
\* node of the next iteration, None after a break; panic tells that an
\* unwrap of the iteration met None
match_stride(ns, search_pfx, options, level, node_id, node, acc) ==
    LET stride      == Strides[level]
        last_stride == search_pfx.len < stride_end(level)
        nibble_len  == nibble_len_at(search_pfx, level)
        nibble      == get_nibble(search_pfx.net, stride_start(level), nibble_len)
        r           == search_fn(options, node, search_pfx, nibble, nibble_len,
                                 stride_start(level), acc.ls)
        more        == get_all_more_specifics_from_nibble(ns, ns[node_id], nibble,
                           nibble_len, StrideNodeId(search_pfx.net, stride_start(level)))
        with_more(a) == [a EXCEPT !.ms = Some(more.pfxs),
                                  !.panic = a.panic \/ ~more.ok]
        a1          == [acc EXCEPT !.ls = r.ls]
    IN  CASE IsSome(r.child) /\ IsSome(r.pfx) ->
               LET a2 == [a1 EXCEPT !.cand = r.pfx]
               IN  IF Unwrap(r.child) \notin DOMAIN ns
                   THEN [acc |-> [a2 EXCEPT !.panic = TRUE], next |-> None]
                   ELSE IF last_stride
                   THEN [acc |-> IF options.include_more_specifics
                                 THEN with_more(a2) ELSE a2,
                         next |-> None]
                   ELSE [acc |-> a2, next |-> r.child]
          [] IsSome(r.child) /\ ~IsSome(r.pfx) ->
               IF Unwrap(r.child) \notin DOMAIN ns
               THEN [acc |-> [a1 EXCEPT !.panic = TRUE], next |-> None]
               ELSE IF last_stride
               THEN [acc |-> IF options.include_more_specifics
                             THEN with_more(a1) ELSE a1,
                     next |-> None]
               ELSE [acc |-> a1, next |-> r.child]
          [] ~IsSome(r.child) /\ IsSome(r.pfx) ->
               [acc |-> [(IF options.include_more_specifics
                          THEN with_more(a1) ELSE a1) EXCEPT !.cand = r.pfx],
                next |-> None]
          [] OTHER ->
               [acc |-> no_child_no_prefix(options, a1, with_more(a1)),
                next |-> None]

\* the stride loop of match_prefix from `level` on
RECURSIVE match_walk(_, _, _, _, _, _)
match_walk(ns, search_pfx, options, level, node_id, acc) ==
    IF level > Len(Strides) THEN acc
    ELSE LET r == match_stride(ns, search_pfx, options, level, node_id,
                               ns[node_id], acc)
         IN  IF IsSome(r.next)
             THEN match_walk(ns, search_pfx, options, level + 1, Unwrap(r.next), r.acc)
             ELSE r.acc

\* the QueryResult of a call whose unwrap met None: the call panics
Panicked == [panic |-> TRUE, prefix |-> None, prefix_meta |-> None,
             match_type |-> EmptyMatch,
             less_specifics |-> None, more_specifics |-> None]

\* the records of the prefix ids of vec, as prefix_store.get(..).unwrap()
\* finds them
records_of(ps, vec) ==
    [i \in 1..Len(vec) |->
        [net |-> vec[i].net, len |-> vec[i].len, meta |-> ps[vec[i]].meta]]

all_stored(ps, vec) == \A i \in 1..Len(vec) : vec[i] \in DOMAIN ps

\* a classification that calls every found prefix a LongestMatch
match_type_always_longest(cand, search_pfx) ==
    IF ~IsSome(cand) THEN EmptyMatch ELSE LongestMatch

\* the match_type of the result: EmptyMatch without a match_prefix_idx, else
\* ExactMatch when the found prefix has the length of the query
match_type_of(cand, search_pfx) ==
    IF ~IsSome(cand) THEN EmptyMatch
    ELSE IF Unwrap(cand).len = search_pfx.len THEN ExactMatch ELSE LongestMatch

\* an answer to a query of length 0 that never tests the serial for 0
default_route_result_without_zero_test(ps, serial, search_pfx) ==
    IF PrefixId(0, 0) \notin DOMAIN ps THEN Panicked
    ELSE [panic |-> FALSE,
          prefix |-> Some(PrefixId(search_pfx.net, search_pfx.len)),
          prefix_meta |-> ps[PrefixId(0, 0)].meta,
          match_type |-> ExactMatch,
          less_specifics |-> None, more_specifics |-> None]

\* the post-processing of match_prefix: the QueryResult of the walk `acc`
query_result(ps, search_pfx, options, acc) ==
    LET found == IsSome(acc.cand)
        less  == IF options.include_less_specifics THEN acc.ls ELSE None
        more  == IF options.include_more_specifics THEN acc.ms ELSE None
    IN  IF \/ acc.panic
           \/ found /\ Unwrap(acc.cand) \notin DOMAIN ps
           \/ IsSome(less) /\ ~all_stored(ps, Unwrap(less))
           \/ IsSome(more) /\ ~all_stored(ps, Unwrap(more))
        THEN Panicked
        ELSE [panic |-> FALSE,
              prefix |-> acc.cand,
              prefix_meta |-> IF found THEN ps[Unwrap(acc.cand)].meta ELSE None,
              match_type |-> match_type_of(acc.cand, search_pfx),
              less_specifics |-> IF IsSome(less)
                                 THEN Some(records_of(ps, Unwrap(less))) ELSE None,
              more_specifics |-> IF IsSome(more)
                                 THEN Some(records_of(ps, Unwrap(more))) ELSE None]

\* an answer to a query of length 0 that returns every stored record as the
\* more-specifics of the default route
default_route_result_with_the_table(ps, serial, search_pfx) ==
    LET ids == CHOOSE seq \in [1..Cardinality(DOMAIN ps) -> DOMAIN ps] :
                   \A p \in DOMAIN ps : \E i \in DOMAIN seq : seq[i] = p
        table == IF DOMAIN ps = {} THEN <<>> ELSE records_of(ps, ids)
    IN  IF serial = 0
        THEN [panic |-> FALSE, prefix |-> None, prefix_meta |-> None,
              match_type |-> EmptyMatch,
              less_specifics |-> None, more_specifics |-> Some(table)]
        ELSE IF PrefixId(0, 0) \notin DOMAIN ps THEN Panicked
        ELSE [panic |-> FALSE,
              prefix |-> Some(PrefixId(search_pfx.net, search_pfx.len)),
              prefix_meta |-> ps[PrefixId(0, 0)].meta,
              match_type |-> ExactMatch,
              less_specifics |-> None, more_specifics |-> Some(table)]

\* the answer of match_prefix to a query of length 0
default_route_result(ps, serial, search_pfx) ==
    IF serial = 0
    THEN [panic |-> FALSE, prefix |-> None, prefix_meta |-> None,
          match_type |-> EmptyMatch,
          less_specifics |-> None, more_specifics |-> None]
    ELSE IF PrefixId(0, 0) \notin DOMAIN ps THEN Panicked
    ELSE [panic |-> FALSE,
          prefix |-> Some(PrefixId(search_pfx.net, search_pfx.len)),
          prefix_meta |-> ps[PrefixId(0, 0)].meta,
          match_type |-> ExactMatch,
          less_specifics |-> None, more_specifics |-> None]

\* the result values of match_prefix before its stride loop
result_values(options) ==
    [cand |-> None,
     ls |-> IF options.include_less_specifics THEN Some(<<>>) ELSE None,
     ms |-> IF options.include_more_specifics THEN Some(<<>>) ELSE None,
     panic |-> FALSE]

\* TreeBitMap::match_prefix on the store (ns, ps, serial)
match_prefix(ns, ps, serial, search_pfx, options) ==
    IF search_pfx.len = 0
    THEN default_route_result(ps, serial, search_pfx)
    ELSE query_result(ps, search_pfx, options,
             match_walk(ns, search_pfx, options, 1, RootId,
                        result_values(options)))

\* ------------------------------------------------------------- the state ----

VARIABLES
    nodes,                 \* the node map, StrideNodeId -> TreeBitMapNode
    prefixes,              \* the prefix map, PrefixId -> slot (serial, meta)
    default_route_serial,  \* the store's default-route serial
    upserts,               \* per prefix, the metadata of the inserts that
                           \* returned Ok, in their order (history)
    ops,                   \* the number of insert calls so far
    qr,                    \* the last match_prefix call and its result
    wr,                    \* per writer thread, where its insert call stands
    rd,                    \* where the reader thread's match_prefix call stands
    targeted,              \* the bits the returned eval_node_or_prefix_at
                           \* calls were asked to set (history)
    errs                   \* the insert calls that returned an error (history)

vars == <<nodes, prefixes, default_route_serial, upserts, ops, qr,
          wr, rd, targeted, errs>>

\* what the threads of the concurrent specification hold
threads == <<wr, rd, targeted, errs>>

\* the prefix of length len whose first len bits are `bits`
Pfx(bits, len) == PrefixId(bits * Pow2(W - len), len)

\* the prefixes the model inserts: the default route, 101/3 on the first
\* stride boundary, 1010/4 and 1011/4 and 101001/6 inside the second stride,
\* 100001/6 in a sibling node, 1010011/7 on the second boundary, and a
\* full-length address below it
InsertPfxs ==
    {Pfx(0, 0), Pfx(5, 3), Pfx(10, 4), Pfx(11, 4), Pfx(33, 6), Pfx(41, 6),
     Pfx(83, 7), Pfx(2667, 12)}

\* the prefixes the model asks for: those it inserts, and 10/2, 10100/5,
\* 101010/6, 10100110/8 and a full-length address that is never inserted
QueryPfxs ==
    InsertPfxs \cup {Pfx(2, 2), Pfx(20, 5), Pfx(42, 6), Pfx(166, 8), Pfx(2666, 12)}

\* the insert calls of the model: every prefix with the metadata "A", and
\* the default route and 101001/6 with "B" as well
InsertInputs ==
    {[pfx |-> p, meta |-> "A"] : p \in InsertPfxs}
    \cup {[pfx |-> p, meta |-> "B"] : p \in {Pfx(0, 0), Pfx(41, 6)}}

MatchOptions ==
    [match_type : {ExactMatch, LongestMatch, EmptyMatch},
     include_less_specifics : BOOLEAN,
     include_more_specifics : BOOLEAN]

\* the writer threads
Writers == {"w1", "w2"}

\* a thread outside any call
IdleWriter ==
    [pc |-> "idle", pfx |-> RootId, meta |-> "", level |-> 0, cur |-> RootId,
     expected |-> {}, fails |-> 0, slot |-> EmptySlot, retries |-> 0,
     loaded |-> {}]

IdleReader ==
    [pc |-> "idle", q |-> RootId, options |-> None, level |-> 0,
     node |-> RootId, pfxbitarr |-> {}, ptrbitarr |-> {},
     acc |-> None, pinned |-> {}, serial |-> 0]

Init ==
    /\ nodes = (RootId :> EmptyNode(Strides[1]))
    /\ prefixes = <<>>
    /\ default_route_serial = 0
    /\ upserts = <<>>
    /\ ops = 0
    /\ qr = None
    /\ wr = [t \in Writers |-> IdleWriter]
    /\ rd = IdleReader
    /\ targeted = {}
    /\ errs = {}

\* the history with one more successful insert of pid
logged(log, pid, meta) ==
    [q \in DOMAIN log \cup {pid} |->
        IF q = pid
        THEN Append(IF pid \in DOMAIN log THEN log[pid] ELSE <<>>, meta)
        ELSE log[q]]

\* TreeBitMap::insert of the prefix pfx with metadata meta
Insert(pfx, meta) ==
    /\ ops < MaxInserts
    /\ IF pfx.len = 0
       THEN /\ nodes' = nodes
            /\ default_route_serial' = default_route_serial + 1
       ELSE /\ nodes' = insert_walk(nodes, pfx, 1, RootId)
            /\ default_route_serial' = default_route_serial
    /\ prefixes' = upsert_prefix(prefixes, pfx, meta)
    /\ upserts' = logged(upserts, pfx, meta)
    /\ ops' = ops + 1
    /\ qr = None
    /\ qr' = None
    /\ UNCHANGED threads

\* a match_prefix that takes the prefixes of the root node on its way
query_clearing_the_root(q, o) ==
    /\ qr = None
    /\ qr' = Some([q |-> q, options |-> o,
                   res |-> match_prefix(nodes, prefixes, default_route_serial, q, o),
                   pinned |-> DOMAIN upserts])
    /\ nodes' = [nodes EXCEPT ![RootId].pfxbitarr = {}]
    /\ UNCHANGED <<prefixes, default_route_serial, upserts, ops>>
    /\ UNCHANGED threads

\* TreeBitMap::match_prefix for the prefix q with the options o; the caller
\* holds one QueryResult at a time
Query(q, o) ==
    /\ qr = None
    /\ qr' = Some([q |-> q, options |-> o,
                   res |-> match_prefix(nodes, prefixes, default_route_serial, q, o),
                   pinned |-> DOMAIN upserts])
    /\ UNCHANGED <<nodes, prefixes, default_route_serial, upserts, ops>>
    /\ UNCHANGED threads

\* the caller drops the QueryResult it holds
Release ==
    /\ qr # None
    /\ qr' = None
    /\ UNCHANGED <<nodes, prefixes, default_route_serial, upserts, ops>>
    /\ UNCHANGED threads

Next ==
    \/ \E i \in InsertInputs : Insert(i.pfx, i.meta)
    \/ \E q \in QueryPfxs, o \in MatchOptions : Query(q, o)
    \/ Release

Spec == Init /\ [][Next]_vars

\* ------------------------------------------- the threads, step by step ----
\* In SpecConc the writer threads run TreeBitMap::insert and the reader runs
\* TreeBitMap::match_prefix one shared-memory access at a time.  qr holds the
\* QueryResult at the instant match_prefix returns it: the caller takes it
\* (RRelease) before the threads go on.

\* the prefixes a writer inserts: 101/3 in the root, 1100/4 below a first
\* child, 101001/6 and 101010/6 together below a second one; each thread has
\* its own range, and the two ranges share 101001/6 and 101010/6
ConcPfxs(t) ==
    IF t = "w1" THEN {Pfx(5, 3), Pfx(41, 6), Pfx(42, 6)}
                ELSE {Pfx(12, 4), Pfx(41, 6), Pfx(42, 6)}

\* the metadata a writer inserts with
MetaOf(t) == IF t = "w1" THEN "A" ELSE "B"

\* the match_prefix calls of the reader: ExactMatch for 101/3, LongestMatch
\* with less- and more-specifics for 101001/6
ConcCalls ==
    {[q |-> Pfx(5, 3),
      options |-> [match_type |-> ExactMatch,
                   include_less_specifics |-> FALSE,
                   include_more_specifics |-> FALSE]],
     [q |-> Pfx(41, 6),
      options |-> [match_type |-> LongestMatch,
                   include_less_specifics |-> TRUE,
                   include_more_specifics |-> TRUE]]}

\* the nibble of the insert of w in its stride, and the bit it stands for
w_nibble_len(w) == nibble_len_at(w.pfx, w.level)
w_nibble(w) == get_nibble(w.pfx.net, stride_start(w.level), w_nibble_len(w))
w_bit_pos(w) == get_bit_pos(Strides[w.level], w_nibble(w), w_nibble_len(w))
w_is_last_stride(w) == w.pfx.len <= stride_end(w.level)

\* a CAS loop that goes on with the array it loaded first
retry_with_stale_array(newer_array, expected) == expected

\* a CAS loop that goes on as if it had found the bitmap empty
retry_expecting_nothing(newer_array, expected) == {}

\* the value the CAS loop expects after a lost compare_exchange: the newer
\* array that the compare_exchange handed back
retry_expected(newer_array, expected) == newer_array

\* the count of the lost compare_exchange calls of a loop, one more
more_fails(fails) == IF fails < FailsCap THEN fails + 1 ELSE fails

\* the bit of a bitmap of a node that a call was asked to set and the number
\* of compare_exchange calls it lost on the way, as `targeted` records them
target(id, arr, bits, fails) ==
    [node |-> id, arr |-> arr, bits |-> bits, fails |-> fails]

\* a thread calls insert(pfx, meta)
WStart(t, pfx) ==
    /\ wr[t].pc = "idle"
    /\ qr = None
    /\ ops < MaxConcInserts
    /\ ops' = ops + 1
    /\ wr' = [wr EXCEPT ![t] = [IdleWriter EXCEPT !.pc = "eval", !.pfx = pfx,
                  !.meta = MetaOf(t), !.level = 1, !.cur = RootId]]
    /\ UNCHANGED <<nodes, prefixes, default_route_serial, upserts, qr, rd,
                   targeted, errs>>

\* insert retrieves its current node and eval_node_or_prefix_at loads the
\* bitmaps and tests the bit
WEval(t) ==
    LET w == wr[t]
    IN  /\ w.pc = "eval"
        /\ qr = None
        /\ IF w.cur \notin DOMAIN nodes
           THEN /\ errs' = errs \cup {[pfx |-> w.pfx, err |-> "NodeNotFound"]}
                /\ wr' = [wr EXCEPT ![t] = IdleWriter]
                /\ UNCHANGED targeted
           ELSE LET node == nodes[w.cur]
                IN  IF ~w_is_last_stride(w)
                    THEN IF ptr_bit_unset(node.stride, node.ptrbitarr, w_bit_pos(w))
                         THEN /\ wr' = [wr EXCEPT ![t].pc = "cas_ptr",
                                                  ![t].expected = node.ptrbitarr,
                                                  ![t].loaded = node.ptrbitarr]
                              /\ UNCHANGED <<targeted, errs>>
                         ELSE /\ wr' = [wr EXCEPT
                                   ![t].cur = StrideNodeId(w.pfx.net,
                                       stride_start(w.level) + Strides[w.level]),
                                   ![t].level = w.level + 1]
                              /\ targeted' = targeted \cup
                                   {target(w.cur, "ptrbitarr",
                                       into_ptrbitarr_size(node.stride, w_bit_pos(w)), 0)}
                              /\ UNCHANGED errs
                    ELSE IF pfx_bit_unset(node.pfxbitarr, w_bit_pos(w))
                         THEN /\ wr' = [wr EXCEPT ![t].pc = "cas_pfx",
                                                  ![t].expected = node.pfxbitarr,
                                                  ![t].loaded = node.pfxbitarr]
                              /\ UNCHANGED <<targeted, errs>>
                         ELSE /\ wr' = [wr EXCEPT ![t].pc = "upsert_load"]
                              /\ targeted' = targeted \cup
                                   {target(w.cur, "pfxbitarr", w_bit_pos(w), 0)}
                              /\ UNCHANGED errs
        /\ UNCHANGED <<nodes, prefixes, default_route_serial, upserts, ops, qr, rd>>

\* one compare_exchange of the CAS loop on ptrbitarr; the call returns
\* NewNode when it succeeds
WCasPtr(t) ==
    LET w    == wr[t]
        node == nodes[w.cur]
        r    == compare_exchange(node.ptrbitarr, w.expected,
                    new_ptrbitarr(node.stride, w_bit_pos(w), w.expected))
    IN  /\ w.pc = "cas_ptr"
        /\ qr = None
        /\ nodes' = [nodes EXCEPT ![w.cur].ptrbitarr = r.mem]
        /\ IF r.ok
           THEN /\ wr' = [wr EXCEPT ![t].pc = "store_node"]
                /\ targeted' = targeted \cup
                     {target(w.cur, "ptrbitarr",
                         into_ptrbitarr_size(node.stride, w_bit_pos(w)), w.fails)}
           ELSE /\ wr' = [wr EXCEPT
                          ![t].expected = retry_expected(r.seen, w.expected),
                          ![t].fails = more_fails(w.fails)]
                /\ UNCHANGED targeted
        /\ UNCHANGED <<prefixes, default_route_serial, upserts, ops, qr, rd, errs>>

\* insert stores the node that NewNode handed it and moves on to it
WStoreNode(t) ==
    LET w      == wr[t]
        new_id == acquire_new_node_id(w.pfx.net,
                      stride_start(w.level) + w_nibble_len(w))
    IN  /\ w.pc = "store_node"
        /\ qr = None
        /\ nodes' = store_node(nodes, new_id,
                        EmptyNode(Unwrap(next_stride(w.level))))
        /\ wr' = [wr EXCEPT ![t].pc = "eval", ![t].cur = new_id,
                            ![t].level = w.level + 1, ![t].fails = 0]
        /\ UNCHANGED <<prefixes, default_route_serial, upserts, ops, qr, rd,
                       targeted, errs>>

\* one compare_exchange of the CAS loop on pfxbitarr; the call returns
\* NewPrefix when it succeeds
WCasPfx(t) ==
    LET w    == wr[t]
        node == nodes[w.cur]
        r    == compare_exchange(node.pfxbitarr, w.expected,
                    new_pfxbitarr(w_bit_pos(w), w.expected))
    IN  /\ w.pc = "cas_pfx"
        /\ qr = None
        /\ nodes' = [nodes EXCEPT ![w.cur].pfxbitarr = r.mem]
        /\ IF r.ok
           THEN /\ wr' = [wr EXCEPT ![t].pc = "upsert_load"]
                /\ targeted' = targeted \cup
                     {target(w.cur, "pfxbitarr", w_bit_pos(w), w.fails)}
           ELSE /\ wr' = [wr EXCEPT
                          ![t].expected = retry_expected(r.seen, w.expected),
                          ![t].fails = more_fails(w.fails)]
                /\ UNCHANGED targeted
        /\ UNCHANGED <<prefixes, default_route_serial, upserts, ops, qr, rd, errs>>

\* upsert_prefix reads the slot of the prefix
WUpsertLoad(t) ==
    LET w == wr[t]
    IN  /\ w.pc = "upsert_load"
        /\ qr = None
        /\ wr' = [wr EXCEPT ![t].pc = "upsert_cas",
                            ![t].slot = slot_of(prefixes, w.pfx)]
        /\ UNCHANGED <<nodes, prefixes, default_route_serial, upserts, ops, qr,
                       rd, targeted, errs>>

\* upsert_prefix publishes with a CAS on the slot it read; after a collision
\* it reads again, MaxRetries times at most.  The insert of a prefix returns
\* here, the insert of the default route goes on to count the publication
WUpsertCas(t) ==
    LET w == wr[t]
        r == compare_exchange(slot_of(prefixes, w.pfx), w.slot,
                              upsert_value(w.slot, w.meta))
    IN  /\ w.pc = "upsert_cas"
        /\ qr = None
        /\ IF r.ok
           THEN /\ prefixes' = publish(prefixes, w.pfx, r.mem)
                /\ IF w.pfx.len = 0
                   THEN /\ wr' = [wr EXCEPT ![t].pc = "inc_default"]
                        /\ UNCHANGED upserts
                   ELSE /\ wr' = [wr EXCEPT ![t] = IdleWriter]
                        /\ upserts' = logged(upserts, w.pfx, w.meta)
                /\ UNCHANGED errs
           ELSE /\ IF w.retries >= MaxRetries
                   THEN /\ errs' = errs \cup {[pfx |-> w.pfx,
                                       err |-> "NodeCreationMaxRetryError"]}
                        /\ wr' = [wr EXCEPT ![t] = IdleWriter]
                   ELSE /\ wr' = [wr EXCEPT ![t].pc = "upsert_load",
                                            ![t].retries = w.retries + 1]
                        /\ UNCHANGED errs
                /\ UNCHANGED <<prefixes, upserts>>
        /\ UNCHANGED <<nodes, default_route_serial, ops, qr, rd, targeted>>

\* the reader calls match_prefix(q, o): it pins the epoch and retrieves the
\* root node
RStart(q, o) ==
    /\ rd.pc = "idle"
    /\ qr = None
    /\ rd' = [IdleReader EXCEPT !.pc = "load_pfx", !.q = q, !.options = o,
                 !.level = 1, !.node = RootId, !.acc = result_values(o),
                 !.pinned = DOMAIN upserts]
    /\ UNCHANGED <<nodes, prefixes, default_route_serial, upserts, ops, qr, wr,
                   targeted, errs>>

\* the search primitive loads pfxbitarr
RLoadPfx ==
    /\ rd.pc = "load_pfx"
    /\ rd' = [rd EXCEPT !.pc = "load_ptr", !.pfxbitarr = nodes[rd.node].pfxbitarr]
    /\ UNCHANGED <<nodes, prefixes, default_route_serial, upserts, ops, qr, wr,
                   targeted, errs>>

\* the search primitive loads ptrbitarr
RLoadPtr ==
    /\ rd.pc = "load_ptr"
    /\ rd' = [rd EXCEPT !.pc = "search", !.ptrbitarr = nodes[rd.node].ptrbitarr]
    /\ UNCHANGED <<nodes, prefixes, default_route_serial, upserts, ops, qr, wr,
                   targeted, errs>>

\* an iteration whose search reads the bitmaps of the node again
RSearch_reading_again ==
    LET r == match_stride(nodes, rd.q, rd.options, rd.level, rd.node,
                          nodes[rd.node], rd.acc)
    IN  /\ rd.pc = "search"
        /\ IF IsSome(r.next) /\ rd.level < Len(Strides)
           THEN rd' = [rd EXCEPT !.pc = "load_pfx", !.level = rd.level + 1,
                                 !.node = Unwrap(r.next), !.acc = r.acc]
           ELSE rd' = [rd EXCEPT !.pc = "post", !.acc = r.acc]
        /\ UNCHANGED <<nodes, prefixes, default_route_serial, upserts, ops, qr, wr,
                       targeted, errs>>

\* the rest of the iteration of the stride loop: the search on the loaded
\* bitmaps, the more-specifics, the retrieval of the child node
RSearch ==
    LET node == [stride |-> Strides[rd.level], ptrbitarr |-> rd.ptrbitarr,
                 pfxbitarr |-> rd.pfxbitarr]
        r    == match_stride(nodes, rd.q, rd.options, rd.level, rd.node,
                             node, rd.acc)
    IN  /\ rd.pc = "search"
        /\ IF IsSome(r.next) /\ rd.level < Len(Strides)
           THEN rd' = [rd EXCEPT !.pc = "load_pfx", !.level = rd.level + 1,
                                 !.node = Unwrap(r.next), !.acc = r.acc]
           ELSE rd' = [rd EXCEPT !.pc = "post", !.acc = r.acc]
        /\ UNCHANGED <<nodes, prefixes, default_route_serial, upserts, ops, qr, wr,
                       targeted, errs>>

\* the post-processing of match_prefix; the call returns
RPost ==
    /\ rd.pc = "post"
    /\ qr' = Some([q |-> rd.q, options |-> rd.options,
                   res |-> query_result(prefixes, rd.q, rd.options, rd.acc),
                   pinned |-> rd.pinned])
    /\ rd' = IdleReader
    /\ UNCHANGED <<nodes, prefixes, default_route_serial, upserts, ops, wr,
                   targeted, errs>>

\* the caller of the reader thread takes the QueryResult
RRelease ==
    /\ qr # None
    /\ qr' = None
    /\ UNCHANGED <<nodes, prefixes, default_route_serial, upserts, ops, wr, rd,
                   targeted, errs>>

NextConc ==
    \/ \E t \in Writers : \E pfx \in ConcPfxs(t) : WStart(t, pfx)
    \/ \E t \in Writers : WEval(t)
    \/ \E t \in Writers : WCasPtr(t)
    \/ \E t \in Writers : WStoreNode(t)
    \/ \E t \in Writers : WCasPfx(t)
    \/ \E t \in Writers : WUpsertLoad(t)
    \/ \E t \in Writers : WUpsertCas(t)
    \/ \E c \in ConcCalls : RStart(c.q, c.options)
    \/ RLoadPfx
    \/ RLoadPtr
    \/ RSearch
    \/ RPost
    \/ RRelease

SpecConc == Init /\ [][NextConc]_vars

\* ------------------------------------------- inserts alone, scheduled ----
\* In SpecIns the threads only insert.  w1 is scheduled fairly: whenever it
\* is inside insert it takes its next step at some time.  Nothing is assumed
\* of w2, which may be slow or stop anywhere.

\* the prefixes a thread of SpecIns inserts: both insert 101001/6, w1 also
\* 1100/4 below another child of the root, w2 also 101010/6
InsPfxs(t) ==
    IF t = "w1" THEN {Pfx(12, 4), Pfx(41, 6)}
                ELSE {Pfx(41, 6), Pfx(42, 6)}

\* a thread calls insert(pfx, meta)
WBegin(t, pfx) ==
    /\ wr[t].pc = "idle"
    /\ ops < MaxFairInserts
    /\ ops' = ops + 1
    /\ wr' = [wr EXCEPT ![t] = [IdleWriter EXCEPT !.pc = "eval", !.pfx = pfx,
                  !.meta = MetaOf(t), !.level = 1, !.cur = RootId]]
    /\ UNCHANGED <<nodes, prefixes, default_route_serial, upserts, qr, rd,
                   targeted, errs>>

\* the next step of the thread t inside insert
WStep(t) ==
    \/ WEval(t)
    \/ WCasPtr(t)
    \/ WStoreNode(t)
    \/ WCasPfx(t)
    \/ WUpsertLoad(t)
    \/ WUpsertCas(t)

NextIns ==
    \/ \E t \in Writers : \E pfx \in InsPfxs(t) : WBegin(t, pfx)
    \/ \E t \in Writers : WStep(t)

SpecIns == Init /\ [][NextIns]_vars /\ WF_vars(WStep("w1"))

\* --------------------------------- the default route, step by step ----
\* In SpecDefault the writer threads insert the default route and the reader
\* asks for it: an insert publishes the record in its slot and then counts
\* the publication in the store's serial, a query loads the serial and then
\* retrieves the record.

\* the match_prefix calls of the reader for the default route
DefaultCalls ==
    {[match_type |-> ExactMatch, include_less_specifics |-> FALSE,
      include_more_specifics |-> FALSE],
     [match_type |-> LongestMatch, include_less_specifics |-> TRUE,
      include_more_specifics |-> TRUE]}

\* a thread calls insert((0, 0), meta): no stride is walked
WStartDefault(t) ==
    /\ wr[t].pc = "idle"
    /\ qr = None
    /\ ops < MaxConcInserts
    /\ ops' = ops + 1
    /\ wr' = [wr EXCEPT ![t] = [IdleWriter EXCEPT !.pc = "upsert_load",
                  !.pfx = PrefixId(0, 0), !.meta = MetaOf(t)]]
    /\ UNCHANGED <<nodes, prefixes, default_route_serial, upserts, qr, rd,
                   targeted, errs>>

\* the insert of the default route counts its publication and returns
WIncDefault(t) ==
    LET w == wr[t]
    IN  /\ w.pc = "inc_default"
        /\ qr = None
        /\ default_route_serial' = default_route_serial + 1
        /\ upserts' = logged(upserts, w.pfx, w.meta)
        /\ wr' = [wr EXCEPT ![t] = IdleWriter]
        /\ UNCHANGED <<nodes, prefixes, ops, qr, rd, targeted, errs>>

\* the reader calls match_prefix((0, 0), o)
RStartDefault(o) ==
    /\ rd.pc = "idle"
    /\ qr = None
    /\ rd' = [IdleReader EXCEPT !.pc = "load_serial", !.q = PrefixId(0, 0),
                 !.options = o, !.pinned = DOMAIN upserts]
    /\ UNCHANGED <<nodes, prefixes, default_route_serial, upserts, ops, qr, wr,
                   targeted, errs>>

\* match_prefix loads the default-route serial
RLoadSerial ==
    /\ rd.pc = "load_serial"
    /\ rd' = [rd EXCEPT !.pc = "default_route", !.serial = default_route_serial]
    /\ UNCHANGED <<nodes, prefixes, default_route_serial, upserts, ops, qr, wr,
                   targeted, errs>>

\* match_prefix answers from the serial it loaded: for a serial other than 0
\* it retrieves the record; the call returns
RDefaultRoute ==
    /\ rd.pc = "default_route"
    /\ qr' = Some([q |-> rd.q, options |-> rd.options,
                   res |-> default_route_result(prefixes, rd.serial, rd.q),
                   pinned |-> rd.pinned])
    /\ rd' = IdleReader
    /\ UNCHANGED <<nodes, prefixes, default_route_serial, upserts, ops, wr,
                   targeted, errs>>

NextDefault ==
    \/ \E t \in Writers : WStartDefault(t)
    \/ \E t \in Writers : WUpsertLoad(t)
    \/ \E t \in Writers : WUpsertCas(t)
    \/ \E t \in Writers : WIncDefault(t)
    \/ \E o \in DefaultCalls : RStartDefault(o)
    \/ RLoadSerial
    \/ RDefaultRoute
    \/ RRelease

SpecDefault == Init /\ [][NextDefault]_vars

\* ------------------------------------------------------ the constructor ----
\* In SpecNew no store exists at first and the program calls Store::new, as
\* the main of exact_matches_single does.  qr holds what the caller holds:
\* here the Store that new returned.

\* the address families of a Store
Families == {"v4", "v6"}

\* AddressFamily::BITS, at the scale of the model: W for v4 and a wider v6
AfBits(af) == IF af = "v4" THEN W ELSE W + Strides[1]

\* the sizes a caller puts into a stride sequence: 3, 4 and 5, and the 8 of
\* exact_matches_single
StrideSizes == {3, 4, 5, 8}

\* the stride sequences handed to Store::new
StrideSeqs == UNION {[1..n -> StrideSizes] : n \in 1..MaxStrides}

\* the state before main builds its store
InitNew ==
    /\ nodes = <<>>
    /\ prefixes = <<>>
    /\ default_route_serial = 0
    /\ upserts = <<>>
    /\ ops = 0
    /\ qr = None
    /\ wr = [t \in Writers |-> IdleWriter]
    /\ rd = IdleReader
    /\ targeted = {}
    /\ errs = {}

\* Store::new: a Store of one tree per family, each built from the sequence
\* it is given; the function returns Self and has no other outcome
New(v4_strides, v6_strides) ==
    /\ qr = None
    /\ qr' = Some([v4 |-> [strides |-> v4_strides],
                   v6 |-> [strides |-> v6_strides]])
    /\ UNCHANGED <<nodes, prefixes, default_route_serial, upserts, ops>>
    /\ UNCHANGED threads

NextNew ==
    \E v4_strides \in StrideSeqs, v6_strides \in StrideSeqs :
        New(v4_strides, v6_strides)

SpecNew == InitNew /\ [][NextNew]_vars

\* ---------------------------------------------------- the prefix iterator ----
\* In SpecIter a local_vec Store holds its two prefix vectors and the program
\* walks them with the iterator of prefixes_iter, calling next and next_back
\* in any order.  qr holds what the caller holds: the iterator and the items
\* the calls returned so far.

\* the longest prefix vector of a family
MaxRecs == 2

\* the number of calls made on one iterator
MaxCalls == 5

\* the prefix vector of a family: n stored PrefixInfoUnits, each with its
\* meta-data
stored_prefixes(af, n) ==
    [i \in 1..n |-> [af |-> af, net |-> i, len |-> W, meta |-> Some("A")]]

\* [..].iter(): a slice::Iter over a vector, all of it still to come
slice_iter(v) == [v |-> v, front |-> 0, back |-> Len(v)]

\* slice::Iter::next
slice_next(it) ==
    IF it.front = it.back
    THEN [item |-> None, it |-> it]
    ELSE [item |-> Some(it.v[it.front + 1]),
          it |-> [it EXCEPT !.front = it.front + 1]]

\* slice::Iter::next_back
slice_next_back(it) ==
    IF it.front = it.back
    THEN [item |-> None, it |-> it]
    ELSE [item |-> Some(it.v[it.back]),
          it |-> [it EXCEPT !.back = it.back - 1]]

\* Store::prefixes_iter
prefixes_iter(v4, v6) == [v4 |-> Some(slice_iter(v4)), v6 |-> slice_iter(v6)]

\* SinglePrefixRoute::new(Prefix::new(res.net.into_ipaddr(), res.len)
\* .unwrap(), res.meta.as_ref().unwrap())
route_of(res) ==
    [prefix |-> [addr |-> <<res.af, res.net>>, len |-> res.len],
     meta |-> Unwrap(res.meta)]

\* Option::map of the conversion
map_route(o) == IF IsSome(o) THEN Some(route_of(Unwrap(o))) ELSE None

\* PrefixInfoUnitIter::next
PrefixInfoUnitIter_next(self) ==
    IF ~IsSome(self.v4)
    THEN LET r == slice_next(self.v6)
         IN  [item |-> map_route(r.item), it |-> [self EXCEPT !.v6 = r.it]]
    ELSE LET r4 == slice_next(Unwrap(self.v4))
         IN  IF IsSome(r4.item)
             THEN [item |-> map_route(r4.item),
                   it |-> [self EXCEPT !.v4 = Some(r4.it)]]
             ELSE LET r == slice_next(self.v6)
                  IN  [item |-> map_route(r.item),
                       it |-> [self EXCEPT !.v4 = None, !.v6 = r.it]]

\* PrefixInfoUnitIter::next_back
PrefixInfoUnitIter_next_back(self) ==
    IF ~IsSome(self.v4)
    THEN LET r == slice_next_back(self.v6)
         IN  [item |-> map_route(r.item), it |-> [self EXCEPT !.v6 = r.it]]
    ELSE LET r4 == slice_next_back(Unwrap(self.v4))
         IN  IF IsSome(r4.item)
             THEN [item |-> map_route(r4.item),
                   it |-> [self EXCEPT !.v4 = Some(r4.it)]]
             ELSE LET r == slice_next_back(self.v6)
                  IN  [item |-> map_route(r.item),
                       it |-> [self EXCEPT !.v4 = None, !.v6 = r.it]]

\* the state after the caller took the iterator of a store
InitIter ==
    /\ nodes = <<>>
    /\ prefixes = <<>>
    /\ default_route_serial = 0
    /\ upserts = <<>>
    /\ ops = 0
    /\ \E n4 \in 0..MaxRecs, n6 \in 0..MaxRecs :
           qr = Some([v4 |-> stored_prefixes("v4", n4),
                      v6 |-> stored_prefixes("v6", n6),
                      it |-> prefixes_iter(stored_prefixes("v4", n4),
                                           stored_prefixes("v6", n6)),
                      calls |-> <<>>])
    /\ wr = [t \in Writers |-> IdleWriter]
    /\ rd = IdleReader
    /\ targeted = {}
    /\ errs = {}

\* the caller calls next
CallNext ==
    /\ Len(Unwrap(qr).calls) < MaxCalls
    /\ LET r == PrefixInfoUnitIter_next(Unwrap(qr).it)
       IN  qr' = Some([Unwrap(qr) EXCEPT
                           !.it = r.it,
                           !.calls = Append(@, [back |-> FALSE,
                                                item |-> r.item])])
    /\ UNCHANGED <<nodes, prefixes, default_route_serial, upserts, ops>>
    /\ UNCHANGED threads

\* the caller calls next_back
CallNextBack ==
    /\ Len(Unwrap(qr).calls) < MaxCalls
    /\ LET r == PrefixInfoUnitIter_next_back(Unwrap(qr).it)
       IN  qr' = Some([Unwrap(qr) EXCEPT
                           !.it = r.it,
                           !.calls = Append(@, [back |-> TRUE,
                                                item |-> r.item])])
    /\ UNCHANGED <<nodes, prefixes, default_route_serial, upserts, ops>>
    /\ UNCHANGED threads

NextIter == CallNext \/ CallNextBack

SpecIter == InitIter /\ [][NextIter]_vars

\* ------------------------------------------------- the prefix records ----
\* In SpecCmp the program compares InternalPrefixRecords, as the sort and the
\* dedup of a prefix vector do.  The addresses keep their width: a u32 or a
\* u128 is the set of the positions of its one bits, position 0 the least
\* significant.  qr holds what the caller holds: the one comparison it made
\* and what it returned.

\* AddressFamily::BITS of IPv4 and IPv6
AF_BITS(af) == IF af = "v4" THEN 32 ELSE 128

\* the greatest element of a non-empty set of positions
top_bit(S) == CHOOSE b \in S : \A c \in S : c <= b

\* the order of two unsigned integers: that of their highest differing bit
uint_cmp(x, y) ==
    IF x = y THEN "Equal"
    ELSE IF top_bit((x \ y) \cup (y \ x)) \in x THEN "Greater" ELSE "Less"

\* x >> s where s is less than the width
shr(x, s) == {b - s : b \in {c \in x : c >= s}}

\* x >> s on an integer of the width of af.  A shift by the width or more
\* overflows: a build with overflow checks panics (None), a build without
\* them shifts by s modulo the width.
Shr(x, s, af) ==
    IF s >= AF_BITS(af)
    THEN {None, Some(shr(x, s % AF_BITS(af)))}
    ELSE {Some(shr(x, s))}

\* self.net >> (AF::BITS - self.len)
self_key(self) == Shr(self.net, AF_BITS(self.af) - self.len, self.af)

\* other.net >> ((AF::BITS - other.len) % 32)
other_key(other) ==
    Shr(other.net, (AF_BITS(other.af) - other.len) % 32, other.af)

\* Ord::cmp of InternalPrefixRecord: the outcomes of a call, None a panic
InternalPrefixRecord_cmp(self, other) ==
    {IF k = None \/ o = None THEN None
     ELSE Some(uint_cmp(Unwrap(k), Unwrap(o))) :
        k \in self_key(self), o \in other_key(other)}

\* PartialEq::eq of InternalPrefixRecord
InternalPrefixRecord_eq(self, other) ==
    {IF k = None \/ o = None THEN None
     ELSE Some(Unwrap(k) = Unwrap(o)) :
        k \in self_key(self), o \in other_key(other)}

\* PartialOrd::partial_cmp of InternalPrefixRecord
InternalPrefixRecord_partial_cmp(self, other) ==
    {IF k = None \/ o = None THEN None
     ELSE Some(Some(uint_cmp(Unwrap(k), Unwrap(o)))) :
        k \in self_key(self), o \in other_key(other)}

\* the prefix lengths of the records compared: the ends, the lengths next
\* to them, and the lengths a multiple of 32 away from the width
RecordLens(af) ==
    {0, 1, 2, AF_BITS(af) - 32, AF_BITS(af) - 1, AF_BITS(af)}

\* the leading bits of the records compared, as the positions of their one
\* bits counted from the end of the prefix
RecordBits == {{}, {0}, {1}, {0, 1}, {32}}

\* new_with_meta: the record of a prefix, its bits at the top of the address
new_with_meta(af, bits, len) ==
    [af |-> af, net |-> {b + (AF_BITS(af) - len) : b \in bits},
     len |-> len, meta |-> "A"]

\* the records of a family the program compares
Records(af) ==
    UNION {{new_with_meta(af, bits, len) :
                bits \in {s \in RecordBits : \A b \in s : b < len}} :
           len \in RecordLens(af)}

\* the state before a comparison
InitCmp ==
    /\ nodes = <<>>
    /\ prefixes = <<>>
    /\ default_route_serial = 0
    /\ upserts = <<>>
    /\ ops = 0
    /\ qr = None
    /\ wr = [t \in Writers |-> IdleWriter]
    /\ rd = IdleReader
    /\ targeted = {}
    /\ errs = {}

\* the program evaluates a == b
Eq(a, b) ==
    /\ qr = None
    /\ \E out \in InternalPrefixRecord_eq(a, b) :
           qr' = Some([op |-> "eq", a |-> a, b |-> b, out |-> out])
    /\ UNCHANGED <<nodes, prefixes, default_route_serial, upserts, ops>>
    /\ UNCHANGED threads

\* the program evaluates a.cmp(b)
Cmp(a, b) ==
    /\ qr = None
    /\ \E out \in InternalPrefixRecord_cmp(a, b) :
           qr' = Some([op |-> "cmp", a |-> a, b |-> b, out |-> out])
    /\ UNCHANGED <<nodes, prefixes, default_route_serial, upserts, ops>>
    /\ UNCHANGED threads

\* the program evaluates a.partial_cmp(b)
PartialCmp(a, b) ==
    /\ qr = None
    /\ \E out \in InternalPrefixRecord_partial_cmp(a, b) :
           qr' = Some([op |-> "partial_cmp", a |-> a, b |-> b, out |-> out])
    /\ UNCHANGED <<nodes, prefixes, default_route_serial, upserts, ops>>
    /\ UNCHANGED threads

NextCmp ==
    \E af \in Families :
        \E a \in Records(af), b \in Records(af) :
            \/ Eq(a, b)
            \/ Cmp(a, b)
            \/ PartialCmp(a, b)

SpecCmp == InitCmp /\ [][NextCmp]_vars

\* ------------------------------------------------------------ the claims ----

\* the prefixes whose insert returned Ok
inserted == DOMAIN upserts

\* a match_prefix call has returned
Asked == IsSome(qr)
TheQuery == Unwrap(qr).q
TheOptions == Unwrap(qr).options
TheResult == Unwrap(qr).res

\* the prefixes whose insert had returned Ok when the call pinned its epoch
Pinned == Unwrap(qr).pinned

\* every insert call has returned
AllReturned == \A t \in Writers : wr[t].pc = "idle"

\* the merge of the metadata in log, in its order
RECURSIVE merged(_)
merged(log) ==
    IF Len(log) = 1 THEN log[1]
    ELSE merge_update(merged(SubSeq(log, 1, Len(log) - 1)), log[Len(log)])

\* the prefix ids of a record set
ids_of(recs) == {PrefixId(recs[i].net, recs[i].len) : i \in 1..Len(recs)}

\* C1: after any sequence of inserts, an ExactMatch query for an inserted
\* prefix of length >= 1 returns that prefix with match_type ExactMatch.
C1_ExactFindsInserted ==
    (/\ Asked
     /\ TheOptions.match_type = ExactMatch
     /\ TheQuery.len >= 1
     /\ TheQuery \in inserted)
    => /\ ~TheResult.panic
       /\ TheResult.prefix = Some(TheQuery)
       /\ TheResult.match_type = ExactMatch

\* C1 witness: an ExactMatch query found a prefix of the second stride while
\* other prefixes are in the store
C1_Witness ==
    /\ Asked
    /\ TheOptions.match_type = ExactMatch
    /\ TheQuery = Pfx(41, 6)
    /\ TheQuery \in inserted
    /\ Cardinality(inserted) >= 2
    /\ TheResult.prefix = Some(TheQuery)

\* the inserted prefixes of length >= 1 that are prefixes-of q
covering(q) == {p \in inserted : p.len >= 1 /\ IsPrefixOf(p, q)}

\* C2: a LongestMatch query q of length >= 1 returns an inserted prefix-of q
\* such that no longer inserted prefix is a prefix-of q, and it returns a
\* prefix whenever an inserted prefix of length >= 1 is a prefix-of q.
C2_LongestMatch ==
    (/\ Asked
     /\ TheOptions.match_type = LongestMatch
     /\ TheQuery.len >= 1)
    => /\ ~TheResult.panic
       /\ IsSome(TheResult.prefix) =>
            /\ Unwrap(TheResult.prefix) \in inserted
            /\ IsPrefixOf(Unwrap(TheResult.prefix), TheQuery)
            /\ \A p \in covering(TheQuery) : p.len <= Unwrap(TheResult.prefix).len
       /\ covering(TheQuery) # {} => IsSome(TheResult.prefix)

\* C2 witness: a LongestMatch query returned a strictly shorter prefix that
\* is not the shortest inserted prefix-of the query
C2_Witness ==
    /\ Asked
    /\ TheOptions.match_type = LongestMatch
    /\ IsSome(TheResult.prefix)
    /\ Unwrap(TheResult.prefix).len < TheQuery.len
    /\ Cardinality(covering(TheQuery)) >= 2

\* the inserted prefixes strictly more specific than q
more_specific_than(q) == {p \in inserted : p # q /\ IsPrefixOf(q, p)}

\* recs holds exactly the prefixes of the set want, each once
holds_exactly(recs, want) ==
    /\ ids_of(recs) = want
    /\ Len(recs) = Cardinality(want)

\* C8: after the inserts of one prefix, the store keeps one record for it,
\* and ExactMatch returns the merge of the metadata of all its upserts in
\* their order, which is the metadata of the last one.
C8_UpsertMergesInOrder ==
    /\ DOMAIN prefixes = inserted
    /\ (/\ Asked
        /\ TheOptions.match_type = ExactMatch
        /\ TheQuery \in inserted)
       => /\ ~TheResult.panic
          /\ TheResult.prefix = Some(TheQuery)
          /\ TheResult.prefix_meta = Some(merged(upserts[TheQuery]))
          /\ TheResult.prefix_meta =
                 Some(upserts[TheQuery][Len(upserts[TheQuery])])

\* C8 witness: a prefix was inserted with "A" and then with "B", and an
\* ExactMatch query for it returned "B"
C8_Witness ==
    /\ Asked
    /\ TheOptions.match_type = ExactMatch
    /\ TheQuery \in inserted
    /\ TheQuery.len >= 1
    /\ upserts[TheQuery] = <<"A", "B">>
    /\ TheResult.prefix_meta = Some("B")

\* C9 as stated, for a query of any length: when ExactMatch with
\* include_more_specifics finds the query, more_specifics holds exactly the
\* inserted prefixes strictly more specific than the query, each once.
C9_MoreSpecificsOfExactMatch_AnyLength ==
    (/\ Asked
     /\ TheOptions.match_type = ExactMatch
     /\ TheOptions.include_more_specifics
     /\ ~TheResult.panic
     /\ TheResult.prefix = Some(TheQuery))
    => /\ IsSome(TheResult.more_specifics)
       /\ holds_exactly(Unwrap(TheResult.more_specifics),
                        more_specific_than(TheQuery))

\* C9: when ExactMatch with include_more_specifics finds a query of length
\* >= 1, more_specifics holds exactly the inserted prefixes strictly more
\* specific than the query, each once.
C9_MoreSpecificsOfExactMatch ==
    (/\ Asked
     /\ TheOptions.match_type = ExactMatch
     /\ TheOptions.include_more_specifics
     /\ TheQuery.len >= 1
     /\ TheResult.prefix = Some(TheQuery))
    => /\ ~TheResult.panic
       /\ IsSome(TheResult.more_specifics)
       /\ holds_exactly(Unwrap(TheResult.more_specifics),
                        more_specific_than(TheQuery))

\* C9 witness: an ExactMatch found 101/3 in the root and returned its two
\* more-specifics, one from each of the two nodes below
C9_Witness ==
    /\ Asked
    /\ TheOptions.match_type = ExactMatch
    /\ TheOptions.include_more_specifics
    /\ TheQuery = Pfx(5, 3)
    /\ TheResult.prefix = Some(TheQuery)
    /\ IsSome(TheResult.more_specifics)
    /\ ids_of(Unwrap(TheResult.more_specifics)) = {Pfx(41, 6), Pfx(2667, 12)}

\* C10: for a LongestMatch query of length >= 1 with include_more_specifics
\* that returns a prefix, more_specifics holds exactly the inserted prefixes
\* strictly more specific than the query, each once.
C10_MoreSpecificsOfLongestMatch ==
    (/\ Asked
     /\ TheOptions.match_type = LongestMatch
     /\ TheOptions.include_more_specifics
     /\ TheQuery.len >= 1
     /\ ~TheResult.panic
     /\ IsSome(TheResult.prefix))
    => /\ IsSome(TheResult.more_specifics)
       /\ holds_exactly(Unwrap(TheResult.more_specifics),
                        more_specific_than(TheQuery))

\* the children and the prefixes that the bitmaps of the node `id` advertise
advertised_children(id) ==
    LET s == nodes[id].stride
    IN  {add_nibble(id, n, s) : n \in
            {m \in 0..(Pow2(s) - 1) :
                ptr_bit_set(s, nodes[id].ptrbitarr, get_bit_pos(s, m, s))}}

advertised_prefixes(id) ==
    LET s == nodes[id].stride
    IN  UNION {{add_nibble(id, n, l) : n \in
                   {m \in 0..(Pow2(l) - 1) :
                       pfx_bit_set(nodes[id].pfxbitarr, get_bit_pos(s, m, l))}}
               : l \in 1..s}

\* C3: in every interleaving of inserts and queries, the child node of every
\* set ptrbitarr bit is in the node map and the record of every set pfxbitarr
\* bit is in the prefix map, and no lookup of match_prefix fails.
C3_PublishThenAdvertise ==
    /\ \A id \in DOMAIN nodes :
         /\ advertised_children(id) \subseteq DOMAIN nodes
         /\ advertised_prefixes(id) \subseteq DOMAIN prefixes
    /\ Asked => ~TheResult.panic

\* C4: a bit that is set stays set, and every bit that a returned
\* eval_node_or_prefix_at call was asked to set is set, whatever the other
\* writers did to the bitmap in between.
C4_BitsStayAndNoUpdateIsLost ==
    /\ [](\A x \in targeted : x.bits \subseteq nodes[x.node][x.arr])
    /\ [][\A id \in DOMAIN nodes :
            /\ id \in DOMAIN nodes'
            /\ nodes[id].ptrbitarr \subseteq nodes'[id].ptrbitarr
            /\ nodes[id].pfxbitarr \subseteq nodes'[id].pfxbitarr]_vars

\* C4 witness: all calls have returned, two of them set different bits of
\* one bitmap, and one of the two lost a compare_exchange to the other
C4_Witness ==
    /\ AllReturned
    /\ \E x, y \in targeted :
         /\ x.node = y.node /\ x.arr = y.arr /\ x.bits # y.bits
         /\ x.fails >= 1
         /\ x.bits \cup y.bits \subseteq nodes[x.node][x.arr]

\* the prefixes of the insert calls that have returned
returned == DOMAIN upserts \cup {e.pfx : e \in errs}

\* C5: when the inserts of pairwise distinct prefixes have all returned, none
\* returned an error, the store holds one record per prefix, and an
\* ExactMatch query made afterwards finds each of them.
C5_DistinctInsertsAllStored ==
    (/\ AllReturned
     /\ Cardinality(returned) = ops)
    => /\ errs = {}
       /\ DOMAIN prefixes = returned
       /\ Cardinality(DOMAIN prefixes) = ops
       /\ (/\ Asked
           /\ TheOptions.match_type = ExactMatch
           /\ Pinned = returned
           /\ TheQuery \in returned)
          => /\ ~TheResult.panic
             /\ TheResult.prefix = Some(TheQuery)

\* the prefixes-of q whose insert had returned when the call pinned its epoch
pinned_covering(q) == {p \in Pinned : p.len >= 1 /\ IsPrefixOf(p, q)}

\* C6: a query that runs while other prefixes are being inserted returns the
\* prefixes whose insert returned before it pinned its epoch: ExactMatch finds
\* such a prefix, LongestMatch returns a prefix at least as long as each of
\* them that is a prefix-of the query.
C6_QueryKeepsCompletedInserts ==
    Asked =>
       /\ (TheOptions.match_type = ExactMatch /\ TheQuery \in Pinned)
          => /\ ~TheResult.panic
             /\ TheResult.prefix = Some(TheQuery)
       /\ (TheOptions.match_type = LongestMatch /\ pinned_covering(TheQuery) # {})
          => /\ ~TheResult.panic
             /\ IsSome(TheResult.prefix)
             /\ \A p \in pinned_covering(TheQuery) :
                    p.len <= Unwrap(TheResult.prefix).len

\* C7: the slot of a prefix is published iff an upsert of it succeeded, its
\* serial is the number of the successful upserts, its metadata is their
\* merge in the order of their publications, and a step moves a serial by
\* one at most.
C7_UpsertsLinearized ==
    /\ [](/\ DOMAIN prefixes = DOMAIN upserts
          /\ \A pid \in DOMAIN prefixes :
               /\ prefixes[pid].serial = Len(upserts[pid])
               /\ prefixes[pid].meta = Some(merged(upserts[pid])))
    /\ [][\A pid \in DOMAIN prefixes' :
            \/ slot_of(prefixes', pid).serial = slot_of(prefixes, pid).serial
            \/ /\ slot_of(prefixes', pid).serial = slot_of(prefixes, pid).serial + 1
               /\ Len(upserts'[pid]) = slot_of(prefixes', pid).serial]_vars

\* C7 witness: two writers upserted one prefix at the same time; the CAS of
\* w1 collided with the publication of w2, w1 read the slot again and is
\* about to publish on top of it
C7_Witness ==
    /\ wr["w1"].pc = "upsert_cas"
    /\ wr["w1"].retries = 1
    /\ wr["w1"].slot = [serial |-> 1, meta |-> Some("B")]
    /\ prefixes[wr["w1"].pfx] = wr["w1"].slot
    /\ upserts[wr["w1"].pfx] = <<"B">>

\* the inserted prefixes of length >= 1 that are strict prefixes-of q
less_specific_than(q) ==
    {p \in inserted : p.len >= 1 /\ p.len < q.len /\ IsPrefixOf(p, q)}

\* C11: with include_less_specifics, for a LongestMatch query q of length
\* >= 1 and for an ExactMatch query q that finds q, less_specifics holds
\* exactly the inserted prefixes of length >= 1 that are strict prefixes-of
\* q, each once.
C11_LessSpecificsOfQuery ==
    (/\ Asked
     /\ TheOptions.include_less_specifics
     /\ TheQuery.len >= 1
     /\ ~TheResult.panic
     /\ \/ TheOptions.match_type = LongestMatch
        \/ /\ TheOptions.match_type = ExactMatch
           /\ TheResult.prefix = Some(TheQuery))
    => /\ IsSome(TheResult.less_specifics)
       /\ holds_exactly(Unwrap(TheResult.less_specifics),
                        less_specific_than(TheQuery))

\* recs is in ascending prefix length
ascending_len(recs) ==
    \A i, j \in 1..Len(recs) : i < j => recs[i].len <= recs[j].len

\* recs is in ascending prefix length, equal lengths in ascending address
ascending_len_then_net(recs) ==
    \A i, j \in 1..Len(recs) :
        i < j => \/ recs[i].len < recs[j].len
                 \/ recs[i].len = recs[j].len /\ recs[i].net <= recs[j].net

\* C12: in every QueryResult less_specifics is in ascending prefix length and
\* more_specifics is in ascending prefix length with ties in ascending
\* numeric prefix.
C12_ResultsAreOrdered ==
    (Asked /\ ~TheResult.panic)
    => /\ IsSome(TheResult.less_specifics)
            => ascending_len(Unwrap(TheResult.less_specifics))
       /\ IsSome(TheResult.more_specifics)
            => ascending_len_then_net(Unwrap(TheResult.more_specifics))

\* C13: once the default route is inserted, a LongestMatch query for a full
\* address that no inserted prefix of length >= 1 covers returns the default
\* route with its metadata and match_type LongestMatch.
C13_DefaultRouteIsLongestMatch ==
    (/\ Asked
     /\ TheOptions.match_type = LongestMatch
     /\ TheQuery.len = W
     /\ Pfx(0, 0) \in inserted
     /\ covering(TheQuery) = {})
    => /\ ~TheResult.panic
       /\ TheResult.prefix = Some(Pfx(0, 0))
       /\ TheResult.prefix_meta = Some(merged(upserts[Pfx(0, 0)]))
       /\ TheResult.match_type = LongestMatch

\* C14: for match_type ExactMatch, whatever the include flags, the result's
\* prefix is the query itself, or it is None with match_type EmptyMatch.
C14_ExactNeverReturnsLessSpecific ==
    (/\ Asked
     /\ TheOptions.match_type = ExactMatch
     /\ ~TheResult.panic)
    => \/ /\ TheResult.prefix = Some(TheQuery)
          /\ TheResult.match_type = ExactMatch
       \/ /\ TheResult.prefix = None
          /\ TheResult.match_type = EmptyMatch

\* C15: in every QueryResult match_type is ExactMatch iff the returned prefix
\* is the query, LongestMatch iff it is a strict less-specific of the query,
\* and EmptyMatch iff prefix and prefix_meta are None.
C15_MatchTypeTellsThePrefix ==
    (Asked /\ ~TheResult.panic)
    => /\ TheResult.match_type = ExactMatch
            <=> TheResult.prefix = Some(TheQuery)
       /\ TheResult.match_type = LongestMatch
            <=> /\ IsSome(TheResult.prefix)
                /\ Unwrap(TheResult.prefix).len < TheQuery.len
                /\ IsPrefixOf(Unwrap(TheResult.prefix), TheQuery)
       /\ TheResult.match_type = EmptyMatch
            <=> /\ TheResult.prefix = None
                /\ TheResult.prefix_meta = None
       /\ TheResult.match_type \in {ExactMatch, LongestMatch, EmptyMatch}

\* C15 witness: a LongestMatch query for an inserted prefix returned it as an
\* ExactMatch while a shorter inserted prefix covers it too
C15_Witness ==
    /\ Asked
    /\ TheOptions.match_type = LongestMatch
    /\ TheResult.match_type = ExactMatch
    /\ TheResult.prefix = Some(TheQuery)
    /\ Cardinality(covering(TheQuery)) >= 2

\* C16: for match_type ExactMatch with include_less_specifics, when the query
\* prefix is not in the store the returned less_specifics holds no record.
C16_NoLessSpecificsWithoutExactMatch ==
    (/\ Asked
     /\ TheOptions.match_type = ExactMatch
     /\ TheOptions.include_less_specifics
     /\ TheQuery \notin inserted
     /\ ~TheResult.panic)
    => \/ TheResult.less_specifics = None
       \/ TheResult.less_specifics = Some(<<>>)

C18_RetriesAreBounded ==
    \A t \in Writers :
        /\ wr[t].pc \in {"cas_ptr", "cas_pfx"} => wr[t].fails <= MaxRetries
        /\ wr[t].pc \in {"upsert_load", "upsert_cas"}
              => wr[t].retries <= MaxRetries

\* the bitmap the CAS loop of w works on
cas_arr(w) == IF w.pc = "cas_ptr" THEN "ptrbitarr" ELSE "pfxbitarr"

\* the thread t is inside insert
busy(t) == wr[t].pc # "idle"

\* C19: a compare_exchange of a bit-set loop is lost only when another call
\* set a bit of the same bitmap after the loser loaded it; a thread that is
\* scheduled returns from every insert whatever the other thread does, and
\* when both are scheduled both return.
C19_InsertsAreLockFree ==
    /\ [][\A t \in Writers :
            (/\ wr[t].pc \in {"cas_ptr", "cas_pfx"}
             /\ wr'[t].pc = wr[t].pc
             /\ wr'[t] # wr[t])
            => \E x \in targeted :
                  /\ x.node = wr[t].cur
                  /\ x.arr = cas_arr(wr[t])
                  /\ ~(x.bits \subseteq wr[t].expected)]_vars
    /\ busy("w1") ~> ~busy("w1")
    /\ WF_vars(WStep("w2")) => (busy("w2") ~> ~busy("w2"))

\* C19 witness: w1 has returned from the insert of 1100/4, in which it lost
\* a compare_exchange on the root's ptrbitarr, while w2 is inside an insert
C19_Witness ==
    /\ ~busy("w1")
    /\ busy("w2")
    /\ Pfx(12, 4) \in inserted
    /\ \E x \in targeted :
          /\ x.node = RootId
          /\ x.arr = "ptrbitarr"
          /\ x.fails >= 1
          /\ x.bits # {}

\* ---- C20 ----

\* the sum of the elements of a stride sequence
stride_sum(strides) ==
    LET RECURSIVE upto(_)
        upto(n) == IF n = 0 THEN 0 ELSE strides[n] + upto(n - 1)
    IN upto(Len(strides))

\* the configurations the contract of Store::new admits for a family
admitted(strides, af) ==
    /\ stride_sum(strides) = AfBits(af)
    /\ \A i \in 1..Len(strides) : strides[i] \in {3, 4, 5}

\* C20: Store::new creates no store from a stride sequence that does not sum
\* to the width of its address family or that has an element outside
\* {3, 4, 5}: a Store that new returned has admitted sequences for both
\* families.
C20_NoStoreFromRejectedStrides ==
    IsSome(qr) =>
        \A af \in Families : admitted(Unwrap(qr)[af].strides, af)

\* ---- C21 ----

\* the inserted prefixes that are a prefix-of q, q itself included
prefixes_of(q) == {p \in inserted : IsPrefixOf(p, q)}

\* C21 as stated, for a query of any length: an EmptyMatch query with
\* include_more_specifics for which no inserted prefix is a prefix-of the
\* query returns no prefix, the match type EmptyMatch, and as more_specifics
\* exactly the inserted prefixes strictly more specific than the query.
C21_EmptyMatchMoreSpecifics_AnyLength ==
    (/\ Asked
     /\ TheOptions.match_type = EmptyMatch
     /\ TheOptions.include_more_specifics
     /\ prefixes_of(TheQuery) = {})
    => /\ ~TheResult.panic
       /\ TheResult.prefix = None
       /\ TheResult.match_type = EmptyMatch
       /\ IsSome(TheResult.more_specifics)
       /\ holds_exactly(Unwrap(TheResult.more_specifics),
                        more_specific_than(TheQuery))

\* C21: the same for a query of length >= 1.
C21_EmptyMatchMoreSpecifics ==
    (/\ Asked
     /\ TheOptions.match_type = EmptyMatch
     /\ TheOptions.include_more_specifics
     /\ TheQuery.len >= 1
     /\ prefixes_of(TheQuery) = {})
    => /\ ~TheResult.panic
       /\ TheResult.prefix = None
       /\ TheResult.match_type = EmptyMatch
       /\ IsSome(TheResult.more_specifics)
       /\ holds_exactly(Unwrap(TheResult.more_specifics),
                        more_specific_than(TheQuery))

\* C21 witness: with 101/3 and 101001/6 stored, an EmptyMatch query for 10/2
\* with include_more_specifics returned no prefix and the two of them, one
\* from the root and one from the node below it
C21_Witness ==
    /\ Asked
    /\ TheOptions.match_type = EmptyMatch
    /\ TheOptions.include_more_specifics
    /\ TheQuery = Pfx(2, 2)
    /\ prefixes_of(TheQuery) = {}
    /\ TheResult.prefix = None
    /\ IsSome(TheResult.more_specifics)
    /\ ids_of(Unwrap(TheResult.more_specifics)) = {Pfx(5, 3), Pfx(41, 6)}

\* ---- C22 ----

\* the level at which the insert walk of pfx ends
last_level(pfx) ==
    CHOOSE l \in 1..Len(Strides) :
        /\ pfx.len <= stride_end(l)
        /\ l = 1 \/ pfx.len > stride_end(l - 1)

\* the calls of eval_node_or_prefix_at that the insert of pfx makes from
\* `level` on, one after the other on the node map ns, each return what the
\* bit it was called for tells, and leave that bit set
RECURSIVE eval_calls_right(_, _, _, _)
eval_calls_right(ns, pfx, level, cur) ==
    LET node  == ns[cur]
        S     == Strides[level]
        nl    == nibble_len_at(pfx, level)
        nib   == get_nibble(pfx.net, stride_start(level), nl)
        last  == pfx.len <= stride_end(level)
        r     == eval_node_or_prefix_at(node, nib, nl,
                     [net |-> pfx.net, len |-> stride_start(level)],
                     S, next_stride(level), last)
        child(n) == ptr_bit_set(S, n.ptrbitarr, get_bit_pos(S, nib, S))
        here(n)  == pfx_bit_set(n.pfxbitarr, get_bit_pos(S, nib, nl))
        step  == insert_stride(ns, pfx, level, cur)
    IN  /\ (r.kind = "NewNode") = (~last /\ ~child(node))
        /\ (r.kind = "ExistingNode") = (~last /\ child(node))
        /\ (r.kind = "NewPrefix") = (last /\ ~here(node))
        /\ (r.kind = "ExistingPrefix") = (last /\ here(node))
        /\ r.kind = "NewNode" =>
              /\ r.new_node = EmptyNode(Unwrap(next_stride(level)))
              /\ child(r.node)
              /\ r.node.ptrbitarr \ node.ptrbitarr # {}
              /\ node.ptrbitarr \subseteq r.node.ptrbitarr
              /\ r.node.pfxbitarr = node.pfxbitarr
        /\ r.kind = "ExistingNode" =>
              /\ r.id = add_nibble(StrideNodeId(pfx.net, stride_start(level)), nib, S)
              /\ r.node = node
        /\ r.kind = "NewPrefix" =>
              /\ here(r.node)
              /\ node.pfxbitarr \subseteq r.node.pfxbitarr
              /\ r.node.ptrbitarr = node.ptrbitarr
        /\ r.kind = "ExistingPrefix" => r.node = node
        /\ IsSome(step.next) =>
              eval_calls_right(step.nodes, pfx, level + 1, Unwrap(step.next))

\* the node in which pfx has its bit, and that bit
home_of(pfx) == StrideNodeId(pfx.net, stride_start(last_level(pfx)))
home_bit(pfx) ==
    get_bit_pos(Strides[last_level(pfx)],
                get_nibble(pfx.net, stride_start(last_level(pfx)),
                           nibble_len_at(pfx, last_level(pfx))),
                nibble_len_at(pfx, last_level(pfx)))

\* C22: without concurrent writers, every call of eval_node_or_prefix_at of
\* an insert returns NewNode (an empty node of the shape of next_stride) iff
\* it is not the last stride and the child bit of the nibble was unset,
\* ExistingNode with the id of the base prefix extended by the stride iff not
\* the last stride and the bit was set, NewPrefix iff last stride and the
\* prefix bit was unset, ExistingPrefix iff last stride and it was set; after
\* NewNode or NewPrefix the bit is set, and after the insert the prefix has
\* its bit in its node.
C22_EvalNodeOrPrefixAt ==
    [][\A i \in InsertInputs :
          (i.pfx.len >= 1 /\ Insert(i.pfx, i.meta))
          => /\ eval_calls_right(nodes, i.pfx, 1, RootId)
             /\ home_of(i.pfx) \in DOMAIN nodes'
             /\ pfx_bit_set(nodes'[home_of(i.pfx)].pfxbitarr, home_bit(i.pfx))]_vars

\* C22 witness: 101001/6 was inserted twice, the first insert through a
\* NewNode in the root and a NewPrefix in the node 101/3, the second through
\* ExistingNode and ExistingPrefix
C22_Witness ==
    /\ Pfx(41, 6) \in inserted
    /\ upserts[Pfx(41, 6)] = <<"A", "B">>
    /\ ptr_bit_set(3, nodes[RootId].ptrbitarr, get_bit_pos(3, 5, 3))
    /\ StrideNodeId(Pfx(41, 6).net, 3) \in DOMAIN nodes
    /\ pfx_bit_set(nodes[StrideNodeId(Pfx(41, 6).net, 3)].pfxbitarr,
                   get_bit_pos(4, 1, 3))

\* ---- C23 ----

\* C23: when two inserts race to create one child node, one node is
\* published under its id and it is never replaced: a published node stays
\* published with its shape and loses no bit; and when all inserts have
\* returned, every bit that a call was asked to set in a node below the root
\* is set in the node published under that id.
C23_RacedChildIsPublishedOnce ==
    /\ [][\A id \in DOMAIN nodes :
            /\ id \in DOMAIN nodes'
            /\ nodes'[id].stride = nodes[id].stride
            /\ nodes[id].ptrbitarr \subseteq nodes'[id].ptrbitarr
            /\ nodes[id].pfxbitarr \subseteq nodes'[id].pfxbitarr]_vars
    /\ [](AllReturned =>
             \A x \in targeted :
                 x.node # RootId =>
                     /\ x.node \in DOMAIN nodes
                     /\ x.bits \subseteq nodes[x.node][x.arr])

\* C23 witness: the inserts of 101001/6 and of 101010/6 ran at the same time
\* and have returned; both found the bit of the child 101 unset in the root,
\* one lost its compare_exchange to the other, both got NewNode, and the node
\* 101/3 holds the bits of both prefixes
C23_Witness ==
    /\ AllReturned
    /\ ops = 2
    /\ inserted = {Pfx(41, 6), Pfx(42, 6)}
    /\ \E x \in targeted :
         /\ x.node = RootId /\ x.arr = "ptrbitarr" /\ x.fails >= 1
    /\ StrideNodeId(Pfx(41, 6).net, 3) \in DOMAIN nodes
    /\ Cardinality(nodes[StrideNodeId(Pfx(41, 6).net, 3)].pfxbitarr) = 2

\* ---- C24 ----

\* the node of the stride of `level` on the path of the query q
node_on_path(q, level) == StrideNodeId(q.net, stride_start(level))

\* the sub-lengths k of the nibble of q in `node` at which pfxbitarr has the
\* prefix of q of that length
hits(node, q, start_bit, nibble_len) ==
    {k \in 1..nibble_len :
        pfx_bit_set(node.pfxbitarr,
            get_bit_pos(node.stride, get_nibble(q.net, start_bit, k), k))}

\* the hits that go to less_specifics by the rule of C24: the query goes on
\* past the hit and ptrbitarr has its bit set at the position of the hit
hits_with_child(node, q, start_bit, nibble_len) ==
    {k \in hits(node, q, start_bit, nibble_len) :
        /\ q.len > start_bit + k
        /\ ptr_bit_set(node.stride, node.ptrbitarr,
               get_bit_pos(node.stride, get_nibble(q.net, start_bit, k), k))}

\* the set of the elements of a sequence
elems(seq) == {seq[i] : i \in 1..Len(seq)}

\* C24: search_stride_for_longest_match_at, called for the query on a node
\* of its path, appends the hit at sub-length k to less_specifics exactly
\* when less-specifics are requested, search_pfx.len > start_bit + k and the
\* ptrbitarr bit at that position is set; the latest hit is the candidate.
C24_LessSpecificsOfLongestMatchAt ==
    (/\ Asked
     /\ TheQuery.len >= 1
     /\ TheOptions.match_type # ExactMatch
     /\ TheOptions.include_less_specifics)
    => \A level \in 1..Len(Strides) :
          (/\ node_on_path(TheQuery, level) \in DOMAIN nodes
           /\ TheQuery.len > stride_start(level))
          => LET node == nodes[node_on_path(TheQuery, level)]
                 nl   == nibble_len_at(TheQuery, level)
                 sb   == stride_start(level)
                 r    == search_stride_for_longest_match_at(node, TheQuery,
                             get_nibble(TheQuery.net, sb, nl), nl, sb, Some(<<>>))
                 hs   == hits(node, TheQuery, sb, nl)
             IN  /\ elems(Unwrap(r.ls)) =
                        {PrefixId(truncate_to_len(TheQuery.net, sb + k), sb + k) :
                            k \in hits_with_child(node, TheQuery, sb, nl)}
                 /\ r.pfx = IF hs = {} THEN None
                            ELSE LET k == CHOOSE m \in hs : \A n \in hs : n <= m
                                 IN  Some(PrefixId(
                                       truncate_to_len(TheQuery.net, sb + k), sb + k))

\* ---- C25 ----

\* the prefix of q of the length len
cut(q, len) == PrefixId(truncate_to_len(q.net, len), len)

\* C25: search_stride_for_exact_match_at, called for the query on a node of
\* its path, returns no child and the prefix of the full nibble iff
\* pfxbitarr has it when search_pfx.len <= start_bit + nibble_len, and
\* otherwise no prefix and the child of the nibble iff ptrbitarr has it; it
\* never returns both, never a prefix shorter than the query, and it leaves
\* less_specifics as it got it.
C25_ExactMatchAt ==
    (/\ Asked
     /\ TheQuery.len >= 1
     /\ TheOptions.match_type = ExactMatch
     /\ ~TheOptions.include_less_specifics)
    => \A level \in 1..Len(Strides) :
          (/\ node_on_path(TheQuery, level) \in DOMAIN nodes
           /\ TheQuery.len > stride_start(level))
          => \A ls \in {None, Some(<<>>), Some(<<TheQuery>>)} :
             LET id   == node_on_path(TheQuery, level)
                 nl   == nibble_len_at(TheQuery, level)
                 sb   == stride_start(level)
                 r    == search_stride_for_exact_match_at(nodes[id], TheQuery,
                             get_nibble(TheQuery.net, sb, nl), nl, sb, ls)
                 full == cut(TheQuery, sb + nl)
             IN  /\ r.ls = ls
                 /\ ~(IsSome(r.child) /\ IsSome(r.pfx))
                 /\ IsSome(r.pfx) => Unwrap(r.pfx).len >= TheQuery.len
                 /\ IF TheQuery.len <= sb + nl
                    THEN /\ r.child = None
                         /\ r.pfx = IF full \in advertised_prefixes(id)
                                    THEN Some(full) ELSE None
                    ELSE /\ r.pfx = None
                         /\ r.child = IF full \in advertised_children(id)
                                      THEN Some(full) ELSE None

\* C25 witness: with 101/3 and 101001/6 stored, an ExactMatch for 101001/6
\* went through the root, where the call returned the child 101 and not the
\* prefix 101/3, and found the query in the node below
C25_Witness ==
    /\ Asked
    /\ TheOptions.match_type = ExactMatch
    /\ ~TheOptions.include_less_specifics
    /\ TheQuery = Pfx(41, 6)
    /\ {Pfx(5, 3), Pfx(41, 6)} \subseteq inserted
    /\ Pfx(5, 3) \in advertised_prefixes(RootId)
    /\ Pfx(5, 3) \in advertised_children(RootId)
    /\ TheResult.prefix = Some(TheQuery)

\* ---- C26 ----

\* the level of the node id
level_of(id) == CHOOSE l \in 1..Len(Strides) : stride_start(l) = id.len

\* the (nibble, nibble_len) with which a query for q calls
\* add_more_specifics_at on the node id: the nibble of q in a node of its
\* path, and the top (0, 0) of a node below
more_specifics_calls(q, id) ==
    {<<0, 0>>} \cup
    (IF id = node_on_path(q, level_of(id)) /\ q.len >= id.len
     THEN {<<get_nibble(q.net, id.len, nibble_len_at(q, level_of(id))),
             nibble_len_at(q, level_of(id))>>}
     ELSE {})

\* the (nibble, length) that the bit i of a pfxbitarr of stride s stands
\* for, read off the breadth-first layout: the bits counted from the top are
\* the one unused bit, the 2 prefixes of length 1, the 4 of length 2, ...
length_at(k) == CHOOSE l \in 0..W : Pow2(l) <= k /\ k < Pow2(l + 1)
bit_prefix(id, s, i) ==
    add_nibble(id, (BITS(s) - i) - Pow2(length_at(BITS(s) - i)),
               length_at(BITS(s) - i))

\* the prefixes and the children that the bitmaps of the node id hold
held_prefixes(id) ==
    {bit_prefix(id, nodes[id].stride, i) : i \in nodes[id].pfxbitarr}
held_children(id) ==
    {bit_prefix(id, nodes[id].stride, i + 1) : i \in nodes[id].ptrbitarr}

\* the calls of add_more_specifics_at on the node id that a state answers
\* for: the store before a query for the call at the top (0, 0) of every
\* node, which every query with more-specifics makes on the nodes below its
\* own, and the state of a query for the call at the nibble of the query
calls_checked(id) ==
    IF ~Asked THEN {<<0, 0>>}
    ELSE IF TheQuery.len >= 1 /\ TheOptions.include_more_specifics
         THEN more_specifics_calls(TheQuery, id) \ {<<0, 0>>}
         ELSE {}

\* C26: add_more_specifics_at(node, nibble, nibble_len, base_prefix), for
\* every node of the store and every nibble a query calls it with, returns
\* as prefixes exactly the prefixes that pfxbitarr holds at a length beyond
\* nibble_len below the nibble, and as children exactly the children that
\* ptrbitarr holds at or below the nibble, each once, and never the prefix
\* at (nibble, nibble_len) itself.
C26_AddMoreSpecificsAt ==
    \A id \in DOMAIN nodes :
       LET ap == held_prefixes(id)
           ac == held_children(id)
       IN  \A c \in calls_checked(id) :
             LET r  == add_more_specifics_at(nodes[id], c[1], c[2], id)
                 at == add_nibble(id, c[1], c[2])
             IN  /\ elems(r.pfxs) =
                        {p \in ap : p.len > at.len /\ IsPrefixOf(at, p)}
                 /\ Len(r.pfxs) = Cardinality(elems(r.pfxs))
                 /\ at \notin elems(r.pfxs)
                 /\ elems(r.children) = {k \in ac : IsPrefixOf(at, k)}
                 /\ Len(r.children) = Cardinality(elems(r.children))

\* C26 witness: for a query of 10/2 with more-specifics, the call on the root
\* at the nibble 10 returned the prefix 101/3 and the child 101, and not the
\* prefix 10/2; the node 101/3 holds 1010/4 and 101001/6, which the call at
\* its top returns
C26_Witness ==
    /\ Asked
    /\ TheOptions.include_more_specifics
    /\ TheQuery = Pfx(2, 2)
    /\ add_more_specifics_at(nodes[RootId], 2, 2, RootId) =
           [children |-> <<StrideNodeId(Pfx(5, 3).net, 3)>>,
            pfxs |-> <<Pfx(5, 3)>>]
    /\ StrideNodeId(Pfx(5, 3).net, 3) \in DOMAIN nodes
    /\ elems(add_more_specifics_at(nodes[StrideNodeId(Pfx(5, 3).net, 3)], 0, 0,
                 StrideNodeId(Pfx(5, 3).net, 3)).pfxs) = {Pfx(10, 4), Pfx(41, 6)}
    /\ IsSome(TheResult.more_specifics)
    /\ ids_of(Unwrap(TheResult.more_specifics)) =
           {Pfx(5, 3), Pfx(10, 4), Pfx(41, 6)}

\* ---- C27 ----

\* C27: queries are read-only: a step in which match_prefix returns a
\* result leaves every node with its two bitmaps, every prefix record and
\* serial, the default-route serial and both maps as they were.
C27_QueriesAreReadOnly ==
    [][(qr' # qr /\ IsSome(qr'))
       => /\ nodes' = nodes
          /\ prefixes' = prefixes
          /\ default_route_serial' = default_route_serial]_vars

\* C27 witness: a query with less- and more-specifics found a prefix in a
\* store of two nodes that holds three, read them all and returned two of
\* them; the maps hold what was inserted
C27_Witness ==
    /\ Asked
    /\ TheOptions.include_less_specifics
    /\ TheOptions.include_more_specifics
    /\ IsSome(TheResult.prefix)
    /\ IsSome(TheResult.more_specifics)
    /\ Len(Unwrap(TheResult.more_specifics)) >= 1
    /\ Cardinality(DOMAIN nodes) = 2
    /\ DOMAIN prefixes = inserted
    /\ Cardinality(inserted) = 3
    /\ \A id \in DOMAIN nodes : held_prefixes(id) \subseteq inserted

\* ---- C28 ----

\* the prefixes and the children that the bitmaps the reader loaded hold
loaded_prefixes ==
    {bit_prefix(rd.node, Strides[rd.level], i) : i \in rd.pfxbitarr}
loaded_children ==
    {bit_prefix(rd.node, Strides[rd.level], i + 1) : i \in rd.ptrbitarr}

\* the elements of an optional sequence
some_elems(o) == IF IsSome(o) THEN elems(Unwrap(o)) ELSE {}

\* C28: under concurrent inserts a search primitive loads pfxbitarr and
\* ptrbitarr once each: what it loaded is the value the bitmap held at the
\* load, it keeps that value until it returns whatever the writers set in
\* between, and the prefix, the less-specifics and the child it reports are
\* bits of the loaded values.
C28_SearchLoadsEachBitmapOnce ==
    /\ [](rd.pc \in {"load_ptr", "search"} =>
             rd.pfxbitarr \subseteq nodes[rd.node].pfxbitarr)
    /\ [](rd.pc = "search" => rd.ptrbitarr \subseteq nodes[rd.node].ptrbitarr)
    /\ [][/\ (rd.pc = "load_pfx" /\ rd'.pc = "load_ptr")
             => rd'.pfxbitarr = nodes[rd.node].pfxbitarr
          /\ (rd.pc = "load_ptr" /\ rd'.pc = "search")
             => /\ rd'.ptrbitarr = nodes[rd.node].ptrbitarr
                /\ rd'.pfxbitarr = rd.pfxbitarr
          /\ (rd.pc \in {"load_ptr", "search"} /\ rd'.pc = rd.pc)
             => /\ rd'.pfxbitarr = rd.pfxbitarr
                /\ rd'.ptrbitarr = rd.ptrbitarr
          /\ (rd.pc = "search" /\ rd'.pc # "search")
             => /\ (rd'.acc.cand # rd.acc.cand /\ IsSome(rd'.acc.cand))
                   => Unwrap(rd'.acc.cand) \in loaded_prefixes
                /\ some_elems(rd'.acc.ls) \ some_elems(rd.acc.ls)
                       \subseteq loaded_prefixes
                /\ rd'.pc = "load_pfx" => rd'.node \in loaded_children]_vars

\* C28 witness: a writer set a bit of pfxbitarr after the search primitive
\* loaded it and before it searched; the primitive holds the value from
\* before the insert
C28_Witness ==
    /\ rd.pc = "search"
    /\ rd.pfxbitarr # nodes[rd.node].pfxbitarr
    /\ rd.pfxbitarr \subseteq nodes[rd.node].pfxbitarr

\* ---- C29 ----

\* C29: for every node of the store, the iterator that pfx_iter returns
\* yields the PrefixId of every set bit of pfxbitarr, each once.
C29_PfxIterYieldsEverySetBit ==
    \A id \in DOMAIN nodes :
        LET yielded == collect(pfx_iter(nodes[id], id))
        IN  /\ elems(yielded) = held_prefixes(id)
            /\ Len(yielded) = Cardinality(held_prefixes(id))

\* ---- C30 ----

\* the (nibble, sub_len) pairs of a node of stride S
pairs_of(S) ==
    UNION {{<<n, l>> : n \in 0..(Pow2(l) - 1)} : l \in 1..S}

\* the position of (nibble, sub_len) in a word of `width` bits, its top bit
\* unused: width - 1 - ((2^sub_len - 1) + nibble)
pos_in(width, nibble, sub_len) == (width - 1) - ((Pow2(sub_len) - 1) + nibble)

\* the inserted prefixes that have their bit in the node id
homed_at(id) == {p \in inserted : p.len >= 1 /\ home_of(p) = id}

\* the bit of get_bit_pos is the position at(S, nibble, sub_len) for every
\* pair of every stride, it lies inside a word of width(S) bits and distinct
\* pairs have distinct bits (a fact of the function alone, evaluated in the
\* states before the first insert); and in every store each node holds one
\* bit per prefix inserted into it, at that position
positions_are(at(_, _, _), width(_)) ==
    /\ ops = 0 =>
        \A S \in {Strides[l] : l \in 1..Len(Strides)} :
          LET pairs == pairs_of(S)
              pos == [c \in pairs |-> at(S, c[1], c[2])]
              image == {pos[c] : c \in pairs}
          IN  /\ \A c \in pairs : get_bit_pos(S, c[1], c[2]) = {pos[c]}
              /\ image \subseteq 0..(width(S) - 1)
              /\ Cardinality(image) = Cardinality(pairs)
    /\ Asked \/ \A id \in DOMAIN nodes :
          /\ Cardinality(nodes[id].pfxbitarr) = Cardinality(homed_at(id))
          /\ \A p \in homed_at(id) :
                at(nodes[id].stride,
                   get_nibble(p.net, id.len, p.len - id.len), p.len - id.len)
                    \in nodes[id].pfxbitarr

\* C30 as stated: for every stride S in {3, 4, 5} the position
\* (2^S - 1) - ((2^sub_len - 1) + nibble) is the bit of every pair with
\* 1 <= sub_len <= S and 0 <= nibble < 2^sub_len, it is non-negative and
\* inside a pfxbitarr of 2^S - 1 bits, and distinct pairs have distinct bits.
C30_PositionFunction_AsStated ==
    LET at(S, n, l) == pos_in(Pow2(S), n, l)
        width(S) == Pow2(S) - 1
    IN  positions_are(at, width)

\* C30: the same for the position (2^(S+1) - 1) - ((2^sub_len - 1) + nibble)
\* in a pfxbitarr of 2^(S+1) bits.
C30_PositionFunction ==
    LET at(S, n, l) == pos_in(Pow2(S + 1), n, l)
        width(S) == Pow2(S + 1)
    IN  positions_are(at, width)

\* C30 witness: the node 101/3 of stride 4 holds three prefixes at two
\* lengths, 1010/4 and 1011/4 and 101001/6, at three bits
C30_Witness ==
    /\ homed_at(StrideNodeId(Pfx(5, 3).net, 3)) =
           {Pfx(10, 4), Pfx(11, 4), Pfx(41, 6)}
    /\ nodes[StrideNodeId(Pfx(5, 3).net, 3)].pfxbitarr =
           {pos_in(32, 0, 1), pos_in(32, 1, 1), pos_in(32, 1, 3)}

\* ---- C31 ----

\* the nodes of the store that are children of the node id
children_of(id) ==
    {c \in DOMAIN nodes :
        /\ c.len = id.len + nodes[id].stride
        /\ truncate_to_len(c.net, id.len) = id.net}

\* the pointer bit of the child nibble n of a node of stride S, as the CAS
\* of eval_node_or_prefix_at stores it
ptr_bit(S, n) == into_ptrbitarr_size(S, get_bit_pos(S, n, S))

\* every child nibble of every stride has one pointer bit, inside a word of
\* width(S) bits, and two nibbles never share one (a fact of the functions
\* alone, evaluated in the states before the first insert); and in every
\* store each node has one pointer bit per child node, which ptr_iter
\* yields once each
pointer_bits_in(width(_)) ==
    /\ ops = 0 =>
        \A S \in {Strides[l] : l \in 1..Len(Strides)} :
          LET nibbles == 0..(Pow2(S) - 1)
              image == UNION {ptr_bit(S, n) : n \in nibbles}
          IN  /\ \A n \in nibbles : Cardinality(ptr_bit(S, n)) = 1
              /\ image \subseteq 0..(width(S) - 1)
              /\ Cardinality(image) = Cardinality(nibbles)
    /\ Asked \/ \A id \in DOMAIN nodes :
          LET yielded == collect_children(ptr_iter(nodes[id], id))
          IN  /\ nodes[id].ptrbitarr \subseteq 0..(width(nodes[id].stride) - 1)
              /\ Cardinality(nodes[id].ptrbitarr) = Cardinality(children_of(id))
              /\ elems(yielded) = children_of(id)
              /\ Len(yielded) = Cardinality(children_of(id))

\* C31 as stated: for every stride S in {3, 4, 5} ptrbitarr is 2^(S-1) bits
\* wide and has one distinct bit for each child nibble of the last level of
\* the node, so that two child nibbles never share a pointer bit.
C31_PointerBits_AsStated ==
    LET width(S) == Pow2(S - 1)
    IN  pointer_bits_in(width)

\* C31: the same for a ptrbitarr that is 2^S bits wide.
C31_PointerBits ==
    LET width(S) == PTRBITS(S)
    IN  pointer_bits_in(width)

\* C31 witness: the root has the two children 100/3 and 101/3, at two
\* pointer bits
C31_Witness ==
    /\ children_of(RootId) = {StrideNodeId(Pfx(4, 3).net, 3),
                              StrideNodeId(Pfx(5, 3).net, 3)}
    /\ nodes[RootId].ptrbitarr = ptr_bit(3, 4) \cup ptr_bit(3, 5)

\* ---- C32 ----

\* the way of the stride loop of match_prefix from `level` on: the nodes its
\* iterations search, one after the other, and whether it left through a
\* break or by the end of the stride list
RECURSIVE stride_trail(_, _, _, _, _, _)
stride_trail(ns, search_pfx, options, level, node_id, acc) ==
    IF level > Len(Strides) THEN [visited |-> <<>>, broke |-> FALSE]
    ELSE LET r == match_stride(ns, search_pfx, options, level, node_id,
                               ns[node_id], acc)
             rest == stride_trail(ns, search_pfx, options, level + 1,
                                  Unwrap(r.next), r.acc)
         IN  IF IsSome(r.next)
             THEN [visited |-> <<node_id>> \o rest.visited, broke |-> rest.broke]
             ELSE [visited |-> <<node_id>>, broke |-> TRUE]

\* the way of the stride loop of the call that qr holds
trail_of_qr ==
    stride_trail(nodes, Unwrap(qr).q, Unwrap(qr).options, 1, RootId,
                 result_values(Unwrap(qr).options))

\* C32: with strides that sum to W, the stride loop of every match_prefix
\* call for a query of length 1..W leaves through a break, at the latest in
\* the stride that holds the last bit of the query: it searches one node per
\* stride, each at a length below the length of the query, and never comes
\* to the end of the stride list.
C32_StrideLoopBreaks ==
    [](
        (qr # None /\ Unwrap(qr).q.len >= 1) =>
            LET q == Unwrap(qr).q
                t == trail_of_qr
            IN  /\ t.broke
                /\ Len(t.visited) <= last_level(q)
                /\ \A i \in 1..Len(t.visited) :
                      /\ t.visited[i] = StrideNodeId(q.net, stride_start(i))
                      /\ t.visited[i].len < q.len)

\* C32 witness: a LongestMatch query for the stored full-length address
\* searched the root, 101/3 and 1010011/7 and broke in the last stride
C32_Witness ==
    /\ qr # None
    /\ Unwrap(qr).q = Pfx(2667, 12)
    /\ Unwrap(qr).options.match_type = LongestMatch
    /\ Unwrap(qr).res.prefix = Some(Pfx(2667, 12))
    /\ trail_of_qr = [visited |-> <<RootId, StrideNodeId(Pfx(5, 3).net, 3),
                                    StrideNodeId(Pfx(83, 7).net, 7)>>,
                      broke |-> TRUE]

\* ---- C33 ----

\* the invariant of PrefixId: len <= W and the lowest W - len bits of net
\* are zero
well_formed(p) ==
    /\ p.len \in 0..W
    /\ p.net \in 0..(Pow2(W) - 1)
    /\ p.net % Pow2(W - p.len) = 0

\* the prefix ids in what a search primitive returned
found_by(r) ==
    (IF IsSome(r.pfx) THEN {Unwrap(r.pfx)} ELSE {}) \cup
    (IF IsSome(r.ls) THEN elems(Unwrap(r.ls)) ELSE {})

\* C33: every PrefixId that a search primitive returns or appends to
\* less_specifics, called for the query on a node of its path, has
\* len <= W and the lowest W - len bits of net zero, and is a prefix-of the
\* search prefix; so has every PrefixId that add_more_specifics_at returns
\* for the nibble of the query on a node of its path, and every one that
\* pfx_iter yields on a node of the store (taken in the states between the
\* calls, where every store occurs).
C33_PrefixIdsAreWellFormed ==
    IF ~Asked
    THEN \A id \in DOMAIN nodes :
            \A p \in elems(collect(pfx_iter(nodes[id], id))) : well_formed(p)
    ELSE \A level \in 1..Len(Strides) :
            (/\ TheQuery.len >= 1
             /\ node_on_path(TheQuery, level) \in DOMAIN nodes
             /\ TheQuery.len > stride_start(level))
            => LET id   == node_on_path(TheQuery, level)
                   node == nodes[id]
                   nl   == nibble_len_at(TheQuery, level)
                   sb   == stride_start(level)
                   nib  == get_nibble(TheQuery.net, sb, nl)
                   ids  == found_by(search_stride_for_longest_match_at(
                                  node, TheQuery, nib, nl, sb, Some(<<>>)))
                           \cup found_by(search_stride_for_exact_match_at(
                                  node, TheQuery, nib, nl, sb, Some(<<>>)))
                           \cup found_by(
                                  search_stride_for_exact_match_with_less_specifics_at(
                                  node, TheQuery, nib, nl, sb, Some(<<>>)))
                   more == IF TheOptions.include_more_specifics
                           THEN elems(add_more_specifics_at(node, nib, nl, id).pfxs)
                           ELSE {}
               IN  /\ \A p \in ids : well_formed(p) /\ IsPrefixOf(p, TheQuery)
                   /\ \A p \in more : well_formed(p)

\* C33 witness: with 101/3, 1010/4 and 101001/6 stored, a query for 101001/6
\* found 101/3 in the root and itself in the node 101/3, whose pfx_iter
\* yields 1010/4
C33_Witness ==
    /\ Asked
    /\ TheQuery = Pfx(41, 6)
    /\ inserted = {Pfx(5, 3), Pfx(10, 4), Pfx(41, 6)}
    /\ search_stride_for_longest_match_at(nodes[RootId], TheQuery, 5, 3, 0,
                                          Some(<<>>)).pfx = Some(Pfx(5, 3))
    /\ search_stride_for_exact_match_at(nodes[StrideNodeId(Pfx(5, 3).net, 3)],
           TheQuery, 1, 3, 3, None).pfx = Some(Pfx(41, 6))
    /\ Pfx(10, 4) \in elems(collect(pfx_iter(nodes[StrideNodeId(Pfx(5, 3).net, 3)],
                                             StrideNodeId(Pfx(5, 3).net, 3))))

\* ---- C34 ----

\* C34: a query of length 0 returns less_specifics None and more_specifics
\* None whatever the include flags are and whatever is stored: the table is
\* never returned as the more-specifics of the default route.
C34_DefaultRouteHasNoSpecifics ==
    (Asked /\ TheQuery.len = 0)
    => /\ ~TheResult.panic
       /\ TheResult.less_specifics = None
       /\ TheResult.more_specifics = None

\* C34 witness: with the default route, 101/3 and 1010/4 stored, a query of
\* length 0 that asked for less- and more-specifics found the default route
C34_Witness ==
    /\ Asked
    /\ TheQuery.len = 0
    /\ TheOptions.include_less_specifics
    /\ TheOptions.include_more_specifics
    /\ inserted = {Pfx(0, 0), Pfx(5, 3), Pfx(10, 4)}
    /\ TheResult.match_type = ExactMatch
    /\ TheResult.more_specifics = None

\* ---- C35 ----

\* the calls of eval_node_or_prefix_at that the insert of pfx makes from
\* `level` on, one after the other on the node map ns, each leave the node
\* as it was but for the one bit they were called for
RECURSIVE eval_calls_frame(_, _, _, _)
eval_calls_frame(ns, pfx, level, cur) ==
    LET node  == ns[cur]
        S     == Strides[level]
        nl    == nibble_len_at(pfx, level)
        nib   == get_nibble(pfx.net, stride_start(level), nl)
        last  == pfx.len <= stride_end(level)
        r     == eval_node_or_prefix_at(node, nib, nl,
                     [net |-> pfx.net, len |-> stride_start(level)],
                     S, next_stride(level), last)
        bit   == get_bit_pos(S, nib, nl)
        step  == insert_stride(ns, pfx, level, cur)
    IN  /\ r.node.stride = node.stride
        /\ node.ptrbitarr \subseteq r.node.ptrbitarr
        /\ node.pfxbitarr \subseteq r.node.pfxbitarr
        /\ Cardinality(r.node.ptrbitarr \ node.ptrbitarr)
              + Cardinality(r.node.pfxbitarr \ node.pfxbitarr) <= 1
        /\ ~last => /\ r.node.pfxbitarr = node.pfxbitarr
                    /\ r.node.ptrbitarr \subseteq
                           node.ptrbitarr \cup into_ptrbitarr_size(S, bit)
        /\ last => /\ r.node.ptrbitarr = node.ptrbitarr
                   /\ r.node.pfxbitarr \subseteq node.pfxbitarr \cup bit
        /\ r.kind \in {"ExistingNode", "ExistingPrefix"} => r.node = node
        /\ \A id \in DOMAIN ns : id # cur => step.nodes[id] = ns[id]
        /\ IsSome(step.next) =>
              eval_calls_frame(step.nodes, pfx, level + 1, Unwrap(step.next))

\* C35: every call of eval_node_or_prefix_at of an insert changes at most one
\* bit, the one at (nibble, nibble_len): a call that is not at the last
\* stride leaves pfxbitarr as it was, a call at the last stride leaves
\* ptrbitarr as it was, a call that returns ExistingNode or ExistingPrefix
\* leaves both; the insert of a prefix that is in the store leaves every
\* bitmap as it was.
C35_EvalChangesOneBit ==
    [][\A i \in InsertInputs :
          (i.pfx.len >= 1 /\ Insert(i.pfx, i.meta))
          => /\ eval_calls_frame(nodes, i.pfx, 1, RootId)
             /\ i.pfx \in inserted => nodes' = nodes]_vars

\* C35 witness: 101001/6 was inserted with "B" and then again with "A"; the
\* store has the two nodes and the two bits that the first insert left
C35_Witness ==
    /\ inserted = {Pfx(41, 6)}
    /\ upserts[Pfx(41, 6)] = <<"B", "A">>
    /\ nodes = (RootId :> [stride |-> 3, pfxbitarr |-> {},
                           ptrbitarr |-> into_ptrbitarr_size(3, get_bit_pos(3, 5, 3))]
                @@ StrideNodeId(Pfx(41, 6).net, 3) :>
                          [stride |-> 4, ptrbitarr |-> {},
                           pfxbitarr |-> get_bit_pos(4, 1, 3)])

\* ---- C36 ----

\* the bitmap that the CAS loop of w works on, as the node holds it, and the
\* number of its bits
cas_mem(w) ==
    IF w.pc = "cas_ptr" THEN nodes[w.cur].ptrbitarr ELSE nodes[w.cur].pfxbitarr
cas_width(w) ==
    IF w.pc = "cas_ptr" THEN PTRBITS(Strides[w.level]) ELSE BITS(Strides[w.level])

\* the thread t is in a CAS loop of eval_node_or_prefix_at
in_cas_loop(t) == wr[t].pc \in {"cas_ptr", "cas_pfx"}

\* C36: a CAS loop of eval_node_or_prefix_at never loses more
\* compare_exchange calls than the bitmap had unset bits when the call
\* loaded it: the loop starts with no lost call, every lost call hands back
\* a bitmap with at least one bit more than the loop expected, set by
\* another writer, and changes nothing, so the lost calls are never more
\* than the bits set since the call loaded the bitmap.
C36_CasLoopsAreBounded ==
    /\ [][\A t \in Writers :
            /\ (wr[t].pc = "eval" /\ wr'[t].pc \in {"cas_ptr", "cas_pfx"})
               => /\ wr'[t].fails = 0
                  /\ wr'[t].expected = wr'[t].loaded
            /\ (/\ in_cas_loop(t)
                /\ wr'[t].pc = wr[t].pc
                /\ wr'[t] # wr[t])
               => /\ wr'[t].fails = wr[t].fails + 1
                  /\ wr[t].expected \subseteq wr'[t].expected
                  /\ wr'[t].expected # wr[t].expected
                  /\ wr'[t].expected = cas_mem(wr[t])
                  /\ wr'[t].loaded = wr[t].loaded
                  /\ nodes' = nodes]_vars
    /\ [](\A t \in Writers :
            in_cas_loop(t)
            => /\ wr[t].loaded \subseteq wr[t].expected
               /\ wr[t].expected \subseteq cas_mem(wr[t])
               /\ cas_mem(wr[t]) \subseteq 0..(cas_width(wr[t]) - 1)
               /\ wr[t].fails <= Cardinality(wr[t].expected \ wr[t].loaded)
               /\ wr[t].fails <= cas_width(wr[t]) - Cardinality(wr[t].loaded)
               /\ wr[t].fails < FailsCap)

\* C36 witness: w1 is in the CAS loop on the root's ptrbitarr for 1100/4 and
\* has lost one compare_exchange to w2, which set the bit of the child 101
C36_Witness ==
    /\ wr["w1"].pc = "cas_ptr"
    /\ wr["w1"].pfx = Pfx(12, 4)
    /\ wr["w1"].fails = 1
    /\ wr["w1"].loaded = {}
    /\ wr["w1"].expected = into_ptrbitarr_size(3, get_bit_pos(3, 5, 3))
    /\ nodes[RootId].ptrbitarr = wr["w1"].expected

\* ---- C37 ----

\* the values of the type u8
U8 == 0..255

\* C37: in every iteration of the stride loop that a match_prefix call for a
\* query of length 1..W reaches, stride_end - stride < search_pfx.len and
\* 1 <= nibble_len <= stride: the u8 values stride_end, stride +
\* search_pfx.len and stride + search_pfx.len - stride_end stay in 0..255,
\* and get_nibble is never asked for zero bits.
C37_NibbleLenInEveryIteration ==
    [](
        (Asked /\ TheQuery.len >= 1)
        => \A level \in 1..Len(trail_of_qr.visited) :
              LET stride == Strides[level]
                  last_stride == TheQuery.len < stride_end(level)
              IN  /\ stride_end(level) \in U8
                  /\ stride_end(level) - stride < TheQuery.len
                  /\ last_stride =>
                        /\ stride + TheQuery.len \in U8
                        /\ stride + TheQuery.len - stride_end(level) \in U8
                        /\ nibble_len_at(TheQuery, level) =
                               stride + TheQuery.len - stride_end(level)
                  /\ nibble_len_at(TheQuery, level) \in 1..stride
                  /\ stride_start(level) + nibble_len_at(TheQuery, level) <= W)

\* C37 witness: an ExactMatch with less-specifics for the stored 1010011/7
\* reached the second stride, whose last bit is the last bit of the query,
\* with a full nibble of 4 bits, and a query for 10100/5 reached it with a
\* nibble of 2 bits
C37_Witness ==
    /\ Asked
    /\ TheOptions.match_type = ExactMatch
    /\ TheOptions.include_less_specifics
    /\ TheQuery = Pfx(83, 7)
    /\ TheResult.prefix = Some(Pfx(83, 7))
    /\ Len(trail_of_qr.visited) = 2
    /\ nibble_len_at(TheQuery, 2) = 4
    /\ nibble_len_at(Pfx(20, 5), 2) = 2

\* ---- C38 ----

\* the prefix, prefix_meta and match_type of a QueryResult
answer_of(res) ==
    [prefix |-> res.prefix, prefix_meta |-> res.prefix_meta,
     match_type |-> res.match_type]

\* C38: for the store, the query and the match_type of a match_prefix call,
\* the prefix, prefix_meta and match_type of the result are the same with
\* every choice of include_less_specifics and include_more_specifics.
C38_FlagsChangeOnlyTheSpecifics ==
    Asked =>
        \A less, more \in BOOLEAN :
            answer_of(match_prefix(nodes, prefixes, default_route_serial, TheQuery,
                          [match_type |-> TheOptions.match_type,
                           include_less_specifics |-> less,
                           include_more_specifics |-> more]))
                = answer_of(TheResult)

\* ---- C39 ----

\* the iterator the caller holds, and the calls made on it
TheIter == Unwrap(qr)

\* the items that n calls of next on an iterator return, in order
RECURSIVE next_items(_, _)
next_items(it, n) ==
    IF n = 0 THEN <<>>
    ELSE LET r == PrefixInfoUnitIter_next(it)
         IN  IF IsSome(r.item)
             THEN <<Unwrap(r.item)>> \o next_items(r.it, n - 1)
             ELSE <<>>

\* the order in which next yields the records of the two vectors
next_order(v4, v6) == next_items(prefixes_iter(v4, v6), Len(v4) + Len(v6))

\* a behaviour of next_back calls only returns the records in the reverse
\* of the order of next, and None after them
back_reverses_next ==
    LET order == next_order(TheIter.v4, TheIter.v6)
        calls == TheIter.calls
    IN  (\A i \in 1..Len(calls) : calls[i].back)
        => \A i \in 1..Len(calls) :
               calls[i].item = IF i <= Len(order)
                               THEN Some(order[Len(order) + 1 - i])
                               ELSE None

\* no record is returned by two calls, every item returned is a record of
\* the vectors, and a call returns None only after every record was returned
each_record_once ==
    LET order == next_order(TheIter.v4, TheIter.v6)
        calls == TheIter.calls
        some  == {i \in 1..Len(calls) : IsSome(calls[i].item)}
    IN  /\ \A i, j \in some : calls[i].item = calls[j].item => i = j
        /\ \A i \in some : Unwrap(calls[i].item) \in elems(order)
        /\ \A i \in (1..Len(calls)) \ some :
               elems(order) = {Unwrap(calls[j].item) : j \in some \cap 1..i}

\* C39: PrefixInfoUnitIter is a consistent double-ended iterator: next_back
\* yields the records in exactly the reverse of the order in which next
\* yields them, every v6 record from the back before any v4 record, and any
\* mix of next and next_back calls yields each record exactly once.
C39_ConsistentDoubleEnded ==
    IsSome(qr) => back_reverses_next /\ each_record_once

\* ---- C40 ----

\* the comparison the caller made
TheCall == Unwrap(qr)

\* the call did not panic and returned the value v
call_returned(v) ==
    IF TheCall.op = "partial_cmp" THEN TheCall.out = Some(Some(v))
    ELSE TheCall.out = Some(v)

\* the reverse of an Ordering
reverse(o) ==
    CASE o = "Less" -> "Greater"
      [] o = "Greater" -> "Less"
      [] OTHER -> "Equal"

\* the two records are the same prefix
same_prefix(a, b) == a.net = b.net /\ a.len = b.len

\* C40: equality and ordering of InternalPrefixRecord agree with prefix
\* identity for all lengths from 0 to the width: no comparison shifts by the
\* full bit width, so every call returns; two records compare equal iff they
\* have the same net and len; a == b iff b == a; and cmp(a, b) is the
\* reverse of cmp(b, a).
C40_ComparisonsAgreeWithIdentity ==
    IsSome(qr) =>
        LET a == TheCall.a
            b == TheCall.b
        IN  /\ AF_BITS(a.af) - a.len < AF_BITS(a.af)
            /\ TheCall.out # None
            /\ TheCall.op = "eq" =>
                   /\ call_returned(same_prefix(a, b))
                   /\ InternalPrefixRecord_eq(b, a) = {TheCall.out}
            /\ TheCall.op # "eq" =>
                   /\ call_returned("Equal") <=> same_prefix(a, b)
                   /\ \E o \in {"Less", "Equal", "Greater"} :
                          /\ call_returned(o)
                          /\ InternalPrefixRecord_cmp(b, a) = {Some(reverse(o))}

====
